---- MODULE Spec2Model ----
(***************************************************************************)
(* Model of the Webull reporting scripts (show_asset.py and its variants). *)
(*                                                                         *)
(* Python / JSON values are records tagged by the field t:                 *)
(*   None            [t |-> "none"]                                        *)
(*   int             [t |-> "int",   n |-> n]                              *)
(*   float           [t |-> "float", m |-> m]   the double nearest m/1000  *)
(*   non-finite      [t |-> "fspecial", s |-> "inf" | "-inf" | "nan"]      *)
(*   str             [t |-> "str",   s |-> <<c1, ..., ck>>]                *)
(*   list            [t |-> "list",  v |-> <<x1, ..., xk>>]                *)
(*   dict            [t |-> "dict",  v |-> [keys -> values]]               *)
(* A Python string is the sequence of its characters, so that parsing and  *)
(* formatting are computed character by character.                         *)
(***************************************************************************)
EXTENDS Integers, Sequences, FiniteSets, TLC

VARIABLES
    pc,               \* position of the running function
    value,            \* format_amount: argument value
    currency,         \* format_amount: argument currency ("<default>" = omitted)
    result,           \* format_amount: returned string
    positions_data,   \* display_asset_info: positions_response.json()
    positions,        \* display_asset_info: normalized positions
    valid_positions,  \* display_asset_info: held positions
    idx,              \* display_asset_info: index of the record being filtered
    pos_idx,          \* display_asset_info: enumerate index of the displayed position
    quantity,         \* display_asset_info: reconciled fields of the current position
    market_value,
    cost_price,
    last_price,
    unrealized_pl,
    unrealized_pl_rate,
    out,              \* display_asset_info: the lines printed so far
    subscriptions,    \* display_asset_info: the response of get_app_subscriptions
    account_no,       \* display_asset_info: enumerate index of the account (idx in the source)
    balance_response,   \* display_asset_info: the last response of get_account_balance
    positions_response, \* display_asset_info: the last response of get_account_position
    requests,         \* the API requests issued so far, in order
    environ,          \* os.environ: the value of every key that is set
    environ_before,   \* os.environ when load_env_file was called
    env_file,         \* load_env_file: the lines of the .env file
    line_no,          \* load_env_file: the number of lines read so far
    script,           \* main: the script that is run
    app_key,          \* main: os.getenv('WEBULL_APP_KEY') after the credentials are loaded
    app_secret,       \* main: os.getenv('WEBULL_APP_SECRET') after the credentials are loaded
    stdout,           \* sys.stdout: "terminal" or "logger"
    log_open,         \* MarkdownLogger: the file handle it holds is open
    events,           \* what reached the console and the file, in order
    lines,            \* show_his MarkdownLogger: the buffered lines
    calls,            \* show_his MarkdownLogger: the calls of print made so far
    client,           \* the number of ApiClient objects constructed
    raised,           \* main: an exception has been raised in main
    fetch,            \* the pagination loop that is run
    account_id,       \* get_today_orders: self.account_id; get_positions: account_id
    page_size,        \* the page_size of the requests
    pages,            \* the responses received so far, in order
    page_requests,    \* the cursor of every page request issued so far, in order
    last_id,          \* last_client_order_id or last_instrument_id
    all_records,      \* all_orders or all_positions
    fetch_result,     \* what the function returned
    his_orders,       \* show_his main: orders, the list the statistics are made of
    status_counts,    \* show_his main: the number of orders of every status label
    side_counts,      \* show_his main: the number of buy and of sell orders
    order_idx         \* show_his main: the number of orders the running loop has counted

vars == <<pc, value, currency, result, positions_data, positions,
          valid_positions, idx, pos_idx, quantity, market_value, cost_price,
          last_price, unrealized_pl, unrealized_pl_rate, out, subscriptions,
          account_no, balance_response, positions_response, requests,
          environ, environ_before, env_file, line_no, script, app_key,
          app_secret, stdout, log_open, events, lines, calls, client, raised,
          fetch, account_id, page_size, pages, page_requests, last_id,
          all_records, fetch_result, his_orders, status_counts, side_counts,
          order_idx>>

fmtVars == <<value, currency, result>>
fieldVars == <<quantity, market_value, cost_price, last_price, unrealized_pl,
               unrealized_pl_rate>>
posVars == <<positions_data, positions, valid_positions, idx, pos_idx, fieldVars>>
assetVars == <<subscriptions, account_no, balance_response, positions_response,
               requests>>
\* the variables of the other functions, which the positions step leaves alone
envVars == <<environ, environ_before, env_file, line_no>>
\* the variables of the functions other than display_asset_info
mainVars == <<script, app_key, app_secret, stdout, log_open, events, lines, calls,
              client, raised>>
\* the variables of the pagination loops of show_his.py and show_pos.py
pageVars == <<fetch, account_id, page_size, pages, page_requests, last_id,
              all_records, fetch_result>>
\* the variables of the statistics of show_his.py
statVars == <<his_orders, status_counts, side_counts, order_idx>>
restVars == <<envVars, mainVars, pageVars, statVars>>
\* the variables that the main functions leave alone
otherThanMain == <<fmtVars, posVars, out, subscriptions, account_no,
                   balance_response, positions_response, envVars, pageVars,
                   statVars>>
laterVars == <<assetVars, restVars>>

(***************************************************************************)
(* Bounds of the explored inputs.                                          *)
(***************************************************************************)
MaxStrLen == 3      \* generated numeric strings have at most this many characters
MaxInt == 3         \* generated int arguments range over -MaxInt..MaxInt
MaxMilli == 26      \* generated float arguments range over -MaxMilli..MaxMilli thousandths
MaxRecords == 2     \* a positions array holds at most this many records
MaxAccounts == 2    \* a subscriptions response lists at most this many accounts
MaxLineLen == 3     \* generated lines of a .env file have at most this many characters
MaxLines == 2       \* a .env file of example lines has at most this many lines
MaxReport == 2      \* the data-dependent part of a report has at most this many messages
MaxPrints == 3      \* one logger of show_his.py receives at most this many calls of print
MaxPages == 3       \* a pagination loop receives at most this many responses
MaxPageSize == 2    \* a page holds at most this many records, page_size is at most this
MaxOrders == 2      \* the statistics of show_his.py are made of at most this many orders

(***************************************************************************)
(* Value constructors.                                                     *)
(***************************************************************************)
None == [t |-> "none"]
PyInt(n) == [t |-> "int", n |-> n]
Flt(m) == [t |-> "float", m |-> m]
FSpecial(s) == [t |-> "fspecial", s |-> s]
Str(s) == [t |-> "str", s |-> s]
List(v) == [t |-> "list", v |-> v]
Dict(v) == [t |-> "dict", v |-> v]
PyBool(b) == [t |-> "bool", b |-> b]

\* one printed line: its kind k, the currency a it belongs to (None when it
\* has none) and the value v shown in it (None when it shows none)
Line(k, a, v) == [k |-> k, a |-> a, v |-> v]

Abs(n) == IF n < 0 THEN -n ELSE n

(***************************************************************************)
(* Character-level helpers.                                                *)
(***************************************************************************)
Digits == {"0", "1", "2", "3", "4", "5", "6", "7", "8", "9"}

DigitOf ==
    "0" :> 0 @@ "1" :> 1 @@ "2" :> 2 @@ "3" :> 3 @@ "4" :> 4 @@
    "5" :> 5 @@ "6" :> 6 @@ "7" :> 7 @@ "8" :> 8 @@ "9" :> 9

CharOf == <<"0", "1", "2", "3", "4", "5", "6", "7", "8", "9">>

AllDigits(s) == \A i \in 1..Len(s) : s[i] \in Digits

\* index of the first character of s that lies in cs, 0 when there is none
FirstIn(s, cs) ==
    IF \E i \in 1..Len(s) : s[i] \in cs
    THEN CHOOSE i \in 1..Len(s) : s[i] \in cs /\ \A j \in 1..(i - 1) : s[j] \notin cs
    ELSE 0

RECURSIVE DigitsVal(_)
DigitsVal(s) ==
    IF Len(s) = 0 THEN 0
    ELSE 10 * DigitsVal(SubSeq(s, 1, Len(s) - 1)) + DigitOf[s[Len(s)]]

RECURSIVE Pow10(_)
Pow10(k) == IF k <= 0 THEN 1 ELSE 10 * Pow10(k - 1)

\* the Python test `sub in s` for strings
Contains(s, sub) ==
    \E i \in 1..(Len(s) - Len(sub) + 1) : SubSeq(s, i, i + Len(sub) - 1) = sub

Drop(s, k) == SubSeq(s, k + 1, Len(s))

(***************************************************************************)
(* Decimal(value) and float(value) applied to a string: an optional sign,  *)
(* then Infinity / NaN, or digits with at most one '.', then an optional   *)
(* exponent.  The result is the exact decimal coef * 10^e, or "inf",       *)
(* "nan", or "bad" when the constructor raises.                            *)
(***************************************************************************)
InfNames == {<<"i", "n", "f">>, <<"I", "n", "f", "i", "n", "i", "t", "y">>}
NaNNames == {<<"n", "a", "n">>, <<"N", "a", "N">>}

BadNumber == [k |-> "bad", neg |-> FALSE, coef |-> 0, e |-> 0]

\* Decimal("0")
ZeroDecimal == [k |-> "num", neg |-> FALSE, coef |-> 0, e |-> 0]

ParseExponent(x) ==
    LET sg == Len(x) > 0 /\ x[1] \in {"+", "-"}
        ds == IF sg THEN Drop(x, 1) ELSE x
    IN  IF Len(ds) = 0 \/ ~AllDigits(ds) THEN [ok |-> FALSE, e |-> 0]
        ELSE [ok |-> TRUE,
              e |-> IF sg /\ x[1] = "-" THEN -DigitsVal(ds) ELSE DigitsVal(ds)]

ParseMantissa(mt) ==
    LET d == FirstIn(mt, {"."})
        ip == IF d = 0 THEN mt ELSE SubSeq(mt, 1, d - 1)
        fp == IF d = 0 THEN <<>> ELSE Drop(mt, d)
    IN  IF ~AllDigits(ip) \/ ~AllDigits(fp) \/ Len(ip) + Len(fp) = 0
        THEN [ok |-> FALSE, coef |-> 0, scale |-> 0]
        ELSE [ok |-> TRUE, coef |-> DigitsVal(ip \o fp), scale |-> Len(fp)]

ParseNumber(s) ==
    LET sg == Len(s) > 0 /\ s[1] \in {"+", "-"}
        neg == sg /\ s[1] = "-"
        body == IF sg THEN Drop(s, 1) ELSE s
        x == FirstIn(body, {"E", "e"})
        mt == ParseMantissa(IF x = 0 THEN body ELSE SubSeq(body, 1, x - 1))
        ex == IF x = 0 THEN [ok |-> TRUE, e |-> 0] ELSE ParseExponent(Drop(body, x))
    IN  IF body \in InfNames THEN [k |-> "inf", neg |-> neg, coef |-> 0, e |-> 0]
        ELSE IF body \in NaNNames THEN [k |-> "nan", neg |-> neg, coef |-> 0, e |-> 0]
        ELSE IF ~mt.ok \/ ~ex.ok THEN BadNumber
        ELSE [k |-> "num", neg |-> neg, coef |-> mt.coef, e |-> ex.e - mt.scale]

\* abs(d) < Decimal('0.01') for a parsed number that is not NaN
BelowCent(d) ==
    IF d.k = "inf" THEN FALSE
    ELSE IF d.coef = 0 THEN TRUE
    ELSE IF d.e + 2 >= 0 THEN FALSE
    ELSE IF -(d.e + 2) > 9 THEN TRUE
    ELSE d.coef < Pow10(-(d.e + 2))

\* int(float(x)) of a finite parsed number: truncation toward zero; float(x)
\* is exact here, the explored strings having fewer than 16 significant digits
TruncInt(d) ==
    LET a == IF d.coef = 0 THEN 0
             ELSE IF d.e >= 0 THEN d.coef * Pow10(d.e)
             ELSE IF -d.e > 9 THEN 0
             ELSE d.coef \div Pow10(-d.e)
    IN  IF d.neg THEN -a ELSE a

\* x > 0 for a parsed number (NaN compares false)
Positive(d) ==
    CASE d.k = "inf" -> ~d.neg
      [] d.k = "num" -> ~d.neg /\ d.coef > 0
      [] OTHER -> FALSE

(***************************************************************************)
(* Rendering of numbers as strings.                                        *)
(***************************************************************************)
RECURSIVE NatToStr(_)
NatToStr(n) ==
    IF n < 10 THEN <<CharOf[n + 1]>>
    ELSE NatToStr(n \div 10) \o <<CharOf[(n % 10) + 1]>>

\* str(n) for an int
IntToStr(n) == IF n < 0 THEN <<"-">> \o NatToStr(-n) ELSE NatToStr(n)

Pad3(n) == <<CharOf[(n \div 100) + 1], CharOf[((n \div 10) % 10) + 1], CharOf[(n % 10) + 1]>>
Pad2(n) == <<CharOf[(n \div 10) + 1], CharOf[(n % 10) + 1]>>

RECURSIVE CommaNat(_)
CommaNat(n) ==
    IF n < 1000 THEN NatToStr(n)
    ELSE CommaNat(n \div 1000) \o <<",">> \o Pad3(n % 1000)

\* f"{n:,}" for an int
CommaInt(n) == IF n < 0 THEN <<"-">> \o CommaNat(-n) ELSE CommaNat(n)

\* a variant that rounds toward minus infinity
FloatToInt_Floor(m) == m \div 1000

\* int(x) of the float m/1000: truncation toward zero
FloatToInt(m) == IF m < 0 THEN -((-m) \div 1000) ELSE m \div 1000

\* the float m/1000 rounded to hundredths as the format specifier .2f does:
\* to nearest, and to even when the float lies exactly half way
RoundCents(m) ==
    LET a == Abs(m)
        q == a \div 10
        r == a % 10
    IN  IF r < 5 THEN q
        ELSE IF r > 5 THEN q + 1
        ELSE IF q % 2 = 0 THEN q ELSE q + 1

\* a variant without thousands separators, f"{x:.2f}"
CommaFloat2_NoSeparators(m) ==
    LET c == RoundCents(m)
    IN  (IF m < 0 THEN <<"-">> ELSE <<>>) \o NatToStr(c \div 100) \o <<".">> \o Pad2(c % 100)

\* f"{x:,.2f}" for the float m/1000
CommaFloat2(m) ==
    LET c == RoundCents(m)
    IN  (IF m < 0 THEN <<"-">> ELSE <<>>) \o CommaNat(c \div 100) \o <<".">> \o Pad2(c % 100)

(***************************************************************************)
(* format_amount(value, currency='USD')            show_asset.py 107-188   *)
(***************************************************************************)
JPY == <<"J", "P", "Y">>

\* the default of the parameter currency
EffectiveCurrency(c) == IF c = "<default>" THEN "USD" ELSE c

\* a variant that answers None with two decimals
NoneAmount_TwoDecimals == <<"0", ".", "0", "0">>

\* value is None
NoneAmount == <<"0">>

\* a string below 0.01
StrZero(v, cur) ==
    IF cur = "JPY" \/ Contains(v, JPY) \/ ~Contains(v, <<".">>)
    THEN <<"0">>
    ELSE <<"0", ".", "0", "0">>

\* a variant whose except clause answers "0"
Fallback_Zero(raw) == <<"0">>

\* except Exception: return str(value); raw is the string form of value
\* (a str is its own string form, a non-finite float is spelled by its name)
Fallback(raw) == raw

\* str(int(float(value))); int() of an infinity raises and str(value) is returned
StrYen(v, d) == IF d.k = "inf" THEN Fallback(v) ELSE IntToStr(TruncInt(d))

\* the isinstance(value, str) branch; a string Decimal() rejects, or a NaN
\* (whose comparison raises), ends in the except clause with str(value)
StrAmount(v, cur) ==
    LET d == ParseNumber(v)
    IN  IF d.k \in {"bad", "nan"} THEN Fallback(v)
        ELSE IF BelowCent(d) THEN StrZero(v, cur)
        ELSE IF cur = "JPY" \/ Contains(v, JPY) THEN StrYen(v, d)
        ELSE v

\* the isinstance(value, (int, float)) branch for an int
IntAmount(n, cur) ==
    IF Abs(n) < 1 THEN <<"0">>
    ELSE IF cur = "JPY" THEN CommaInt(n)
    ELSE IntToStr(n)

\* the isinstance(value, (int, float)) branch for a finite float m/1000
FloatAmount(m, cur) ==
    IF Abs(m) < 10 THEN (IF cur = "JPY" THEN <<"0">> ELSE <<"0", ".", "0", "0">>)
    ELSE IF cur = "JPY" THEN CommaInt(FloatToInt(m))
    ELSE CommaFloat2(m)

\* inf, -inf, nan: never below 0.01; int() raises under JPY and str(value)
\* is returned; the format specifier ,.2f renders the same name
SpecialAmount(s, cur) == IF cur = "JPY" THEN Fallback(s) ELSE s

format_amount(v, cur) ==
    CASE v.t = "none" -> NoneAmount
      [] v.t = "str" -> StrAmount(v.s, cur)
      [] v.t = "int" -> IntAmount(v.n, cur)
      [] v.t = "float" -> FloatAmount(v.m, cur)
      [] v.t = "fspecial" -> SpecialAmount(v.s, cur)

(***************************************************************************)
(* Arguments of format_amount that are explored.                           *)
(***************************************************************************)
StrAlphabet == {"0", "1", "5", ".", "-"}

GeneratedStrings == UNION {[1..k -> StrAlphabet] : k \in 0..MaxStrLen}

ExampleStrings == {
    <<"0", "E", "-", "1", "0">>,
    <<"1", "E", "-", "5">>,
    <<"1", "e", "3">>,
    <<"1", ".", "5", "E", "2">>,
    <<"N", "/", "A">>,
    <<"J", "P", "Y">>,
    <<"0", ".", "0", "0", "1">>,
    <<"0", ".", "0", "0", "9">>,
    <<"-", "0", ".", "0", "1">>,
    <<"9", "9", "9", ".", "9", "9", "9">>,
    <<"1", "0", "0", "0">>,
    <<"1", "2", "3", "4", ".", "5">>,
    <<"1", "2", "3", "4", ".", "9">>,
    <<"-", "1", "2", "3", "4", ".", "5", "6">>,
    <<"1", "5", "0", "0", ".", "0", "0", "4">>,
    <<"1", "2", "3", "4", "5", "6", "7", ".", "8">>,
    <<"I", "n", "f", "i", "n", "i", "t", "y">>,
    <<"-", "i", "n", "f">>,
    <<"N", "a", "N">> }

ExampleInts == {999, 1000, 1234, -1234, 1234567, -1234567}

ExampleMillis == {125, 375, -125, 999, 999994, 999999, 1234500, 1234560, 1234900,
                  -1234560, -1234900, 1500004, 1234567890}

\* a float m/1000 whose last digit is 5 lies exactly half way between two
\* hundredths only when it is a binary fraction (a multiple of 1/8); the other
\* such decimals are rounded by their binary expansion and are left out
ExactMilli(m) == m % 10 # 5 \/ m % 125 = 0

FloatInf == FSpecial(<<"i", "n", "f">>)
FloatNegInf == FSpecial(<<"-", "i", "n", "f">>)
FloatNaN == FSpecial(<<"n", "a", "n">>)

AmountInputs ==
    {None}
    \cup {Str(s) : s \in GeneratedStrings \cup ExampleStrings}
    \cup {PyInt(n) : n \in (-MaxInt..MaxInt) \cup ExampleInts}
    \cup {Flt(m) : m \in {x \in (-MaxMilli..MaxMilli) \cup ExampleMillis : ExactMilli(Abs(x))}}
    \cup {FloatInf, FloatNegInf, FloatNaN}

CurrencyArgs == {"<default>", "USD", "JPY", "EUR"}

\* no account run is in progress
IdleAsset ==
    /\ subscriptions = None
    /\ account_no = 0
    /\ balance_response = None
    /\ positions_response = None
    /\ requests = <<>>

\* load_env_file is not running
IdleEnv ==
    /\ environ = <<>>
    /\ environ_before = <<>>
    /\ env_file = [exists |-> FALSE, lines |-> <<>>]
    /\ line_no = 0

\* no script is running
IdleMain ==
    /\ script = "none"
    /\ app_key = None
    /\ app_secret = None
    /\ stdout = "terminal"
    /\ log_open = FALSE
    /\ events = <<>>
    /\ lines = <<>>
    /\ calls = <<>>
    /\ client = 0
    /\ raised = FALSE

\* no pagination loop is running
IdlePages ==
    /\ fetch = "none"
    /\ account_id = None
    /\ page_size = 0
    /\ pages = <<>>
    /\ page_requests = <<>>
    /\ last_id = None
    /\ all_records = <<>>
    /\ fetch_result = None

\* no statistics are being made
IdleStats ==
    /\ his_orders = <<>>
    /\ status_counts = <<>>
    /\ side_counts = <<>>
    /\ order_idx = 0

IdleRest == IdleEnv /\ IdleMain /\ IdlePages /\ IdleStats

IdleLater == IdleAsset /\ IdleRest

IdlePositions ==
    /\ out = <<>>
    /\ positions_data = None
    /\ positions = None
    /\ valid_positions = <<>>
    /\ idx = 0
    /\ pos_idx = 0
    /\ quantity = None
    /\ market_value = None
    /\ cost_price = None
    /\ last_price = None
    /\ unrealized_pl = None
    /\ unrealized_pl_rate = None

InitFormat ==
    /\ pc = "format_amount"
    /\ value \in AmountInputs
    /\ currency \in CurrencyArgs
    /\ result = <<>>
    /\ IdlePositions
    /\ IdleLater

FormatAmount ==
    /\ pc = "format_amount"
    /\ result' = format_amount(value, EffectiveCurrency(currency))
    /\ pc' = "returned"
    /\ UNCHANGED <<value, currency>>
    /\ UNCHANGED <<posVars, out, laterVars>>

NextFormat == FormatAmount

SpecFormat == InitFormat /\ [][NextFormat]_vars

(***************************************************************************)
(* format_currency(value, currency="JPY")          show_pos.py 39-65       *)
(***************************************************************************)
\* the default of the parameter currency
CurrencyDefault(c) == IF c = "<default>" THEN "JPY" ELSE c

\* the digits of a fraction of thousandths without its trailing zeros, one
\* digit at least
FractionDigits(f) ==
    IF f % 100 = 0 THEN <<CharOf[(f \div 100) + 1]>>
    ELSE IF f % 10 = 0 THEN Pad2(f \div 10)
    ELSE Pad3(f)

\* str(value)
StrOfValue(v) ==
    CASE v.t = "none" -> <<"N", "o", "n", "e">>
      [] v.t = "str" -> v.s
      [] v.t = "int" -> IntToStr(v.n)
      [] v.t = "float" ->
            (IF v.m < 0 THEN <<"-">> ELSE <<>>) \o NatToStr(Abs(v.m) \div 1000)
            \o <<".">> \o FractionDigits(Abs(v.m) % 1000)
      [] v.t = "fspecial" -> v.s

\* 'E' in value.upper()
HasExponent(s) == Contains(s, <<"E">>) \/ Contains(s, <<"e">>)

\* decimal_value: a string in scientific notation that encodes zero is
\* replaced by "0" before it is converted, every other value is converted
\* from its string form; k = "bad" stands for the exception of Decimal()
DecimalOfValue(v) ==
    LET d == ParseNumber(StrOfValue(v))
    IN  IF v.t = "str" /\ HasExponent(v.s) /\ d.k = "num" /\ d.coef = 0
        THEN ZeroDecimal
        ELSE d

\* the hundredths of abs(float(d)) as the format specifier .2f rounds them:
\* to nearest, and to even when the float lies exactly half way
RoundHundredths(d) ==
    LET scale == -(d.e + 2)
        q == d.coef \div Pow10(scale)
        r == d.coef % Pow10(scale)
        half == 5 * Pow10(scale - 1)
    IN  IF d.coef = 0 THEN 0
        ELSE IF scale <= 0 THEN d.coef * Pow10(-scale)
        ELSE IF scale > 9 THEN 0
        ELSE IF r < half THEN q
        ELSE IF r > half THEN q + 1
        ELSE IF q % 2 = 0 THEN q ELSE q + 1

\* f"{float(decimal_value):,.2f}"; a negative zero keeps its sign
CurrencyTwoDecimals(d) ==
    CASE d.k = "inf" -> IF d.neg THEN <<"-", "i", "n", "f">> ELSE <<"i", "n", "f">>
      [] d.k = "nan" -> <<"n", "a", "n">>
      [] OTHER ->
            LET c == RoundHundredths(d)
            IN  (IF d.neg THEN <<"-">> ELSE <<>>) \o CommaNat(c \div 100)
                \o <<".">> \o Pad2(c % 100)

\* a variant of the yen branch without thousands separators
CurrencyYen_NoSeparators(d, raw) ==
    IF d.k \in {"inf", "nan"} THEN raw ELSE IntToStr(TruncInt(d))

\* f"{int(decimal_value):,}"; int() of an infinity or of a NaN raises and
\* the except clause returns str(value)
CurrencyYen(d, raw) ==
    IF d.k \in {"inf", "nan"} THEN raw ELSE CommaInt(TruncInt(d))

format_currency(v, cur) ==
    LET d == DecimalOfValue(v)
    IN  IF d.k = "bad" THEN StrOfValue(v)
        ELSE IF cur = "JPY" THEN CurrencyYen(d, StrOfValue(v))
        ELSE CurrencyTwoDecimals(d)

\* a decimal that lies exactly half way between two hundredths and is not a
\* binary fraction: float() moves it to one side by its binary expansion;
\* such arguments are left out
InexactHalf(d) ==
    /\ d.k = "num"
    /\ d.e <= -3
    /\ d.e >= -9
    /\ d.coef % Pow10(-(d.e + 2)) = 5 * Pow10(-(d.e + 3))
    /\ (8 * d.coef) % Pow10(-d.e) # 0

CurrencyInputs == {v \in AmountInputs : ~InexactHalf(ParseNumber(StrOfValue(v)))}

InitCurrency ==
    /\ pc = "format_currency"
    /\ value \in CurrencyInputs
    /\ currency \in CurrencyArgs
    /\ result = <<>>
    /\ IdlePositions
    /\ IdleLater

FormatCurrency ==
    /\ pc = "format_currency"
    /\ result' = format_currency(value, CurrencyDefault(currency))
    /\ pc' = "currency_returned"
    /\ UNCHANGED <<value, currency>>
    /\ UNCHANGED <<posVars, out, laterVars>>

NextCurrency == FormatCurrency

SpecCurrency == InitCurrency /\ [][NextCurrency]_vars

(***************************************************************************)
(* display_asset_info: the positions of one account, from the decoded      *)
(* response to the end of the listing.     show_asset.py 447-650           *)
(***************************************************************************)

\* a variant of dict.get that takes a key holding None for a missing key
Get_SkipNone(d, k, default) == IF k \in DOMAIN d /\ d[k] # None THEN d[k] ELSE default

\* dict.get(key, default)
Get(d, k, default) == IF k \in DOMAIN d THEN d[k] ELSE default

\* a variant that drops a single object instead of wrapping it
WrapSingle_Dropped(pd) == List(<<>>)

\* [positions_data]
WrapSingle(pd) == List(<<pd>>)

\* a variant that looks for the key 'data' before the key 'positions'
NormalizePositions_DataFirst(pd) ==
    IF pd.t = "list" THEN pd
    ELSE IF pd.t = "dict" THEN
        IF "data" \in DOMAIN pd.v THEN pd.v["data"]
        ELSE IF "positions" \in DOMAIN pd.v THEN pd.v["positions"]
        ELSE WrapSingle(pd)
    ELSE List(<<>>)

\* the normalization of the response; a value that is neither a list nor a
\* dict leaves positions = []
NormalizePositions(pd) ==
    IF pd.t = "list" THEN pd
    ELSE IF pd.t = "dict" THEN
        IF "positions" \in DOMAIN pd.v THEN pd.v["positions"]
        ELSE IF "data" \in DOMAIN pd.v THEN pd.v["data"]
        ELSE WrapSingle(pd)
    ELSE List(<<>>)

\* the fields of one position record, each looked up under its alternative keys
QuantityOf(pos) == Get(pos, "position", Get(pos, "quantity", PyInt(0)))
MarketValueOf(pos) == Get(pos, "marketValue", Get(pos, "market_value", PyInt(0)))
CostPriceOf(pos) ==
    Get(pos, "costPrice", Get(pos, "cost_price", Get(pos, "cost", PyInt(0))))
LastPriceOf(pos) == Get(pos, "lastPrice", Get(pos, "last_price", PyInt(0)))
UnrealizedPlOf(pos) ==
    Get(pos, "unrealizedProfitLoss", Get(pos, "unrealized_profit_loss", None))
UnrealizedPlRateOf(pos) ==
    Get(pos, "unrealizedProfitLossRate", Get(pos, "unrealized_profit_loss_rate", None))

\* ticker_info = pos.get('ticker', {})
TickerOf(pos) == Get(pos, "ticker", Dict(<<>>))

\* the truth value of x in a condition
Truthy(x) ==
    CASE x.t = "none" -> FALSE
      [] x.t = "int" -> x.n # 0
      [] x.t = "float" -> x.m # 0
      [] x.t = "fspecial" -> TRUE
      [] x.t = "str" -> Len(x.s) > 0
      [] x.t = "list" -> Len(x.v) > 0
      [] x.t = "dict" -> DOMAIN x.v # {}
      [] x.t = "bool" -> x.b

\* float(x): k = "bad" stands for ValueError, k = "type" for TypeError
ToFloat(x) ==
    CASE x.t = "str" -> ParseNumber(x.s)
      [] x.t = "int" -> [k |-> "num", neg |-> x.n < 0, coef |-> Abs(x.n), e |-> 0]
      [] x.t = "float" -> [k |-> "num", neg |-> x.m < 0, coef |-> Abs(x.m), e |-> -3]
      [] x.t = "fspecial" -> ParseNumber(x.s)
      [] OTHER -> [k |-> "type", neg |-> FALSE, coef |-> 0, e |-> 0]

\* whether the filter appends a position whose quantity is q:
\* quantity_float = float(quantity) if quantity else 0, kept when > 0, and
\* kept as well when float() raises ValueError or TypeError
Held(q) ==
    IF ~Truthy(q) THEN FALSE
    ELSE IF ToFloat(q).k \in {"bad", "type"} THEN TRUE
    ELSE Positive(ToFloat(q))

(***************************************************************************)
(* Responses that are explored.  A record is a function from the keys it   *)
(* holds to their values; a key may hold None (a JSON null).               *)
(***************************************************************************)
\* all records over a subset of keys, the key k holding a value of Val[k]
RecordsOver(keys, Val) ==
    UNION {{f \in [S -> UNION {Val[k] : k \in S}] : \A k \in S : f[k] \in Val[k]} :
           S \in SUBSET keys}

QuantityRecords ==
    RecordsOver({"position", "quantity"},
        "position" :> {None, PyInt(5), PyInt(0), PyInt(-3), Str(<<"0">>),
                       Str(<<"N", "/", "A">>), Str(<<>>)}
        @@ "quantity" :> {PyInt(10)})
    \cup {"quantity" :> None}

HeldBase == "position" :> PyInt(5)

CostRecords ==
    {f @@ HeldBase : f \in RecordsOver({"costPrice", "cost_price", "cost"},
        "costPrice" :> {None, PyInt(7)} @@ "cost_price" :> {None, PyInt(8)}
        @@ "cost" :> {PyInt(9)})}

MarketValueRecords ==
    {f @@ HeldBase : f \in RecordsOver({"marketValue", "market_value"},
        "marketValue" :> {None, PyInt(100)} @@ "market_value" :> {None, PyInt(200)})}

LastPriceRecords ==
    {f @@ HeldBase : f \in RecordsOver({"lastPrice", "last_price"},
        "lastPrice" :> {None, PyInt(11)} @@ "last_price" :> {None, PyInt(12)})}

ProfitLossRecords ==
    {f @@ HeldBase : f \in RecordsOver({"unrealizedProfitLoss", "unrealized_profit_loss"},
        "unrealizedProfitLoss" :> {None, PyInt(3)}
        @@ "unrealized_profit_loss" :> {None, PyInt(-4)})}

RateRecords ==
    {f @@ HeldBase :
        f \in RecordsOver({"unrealizedProfitLossRate", "unrealized_profit_loss_rate"},
        "unrealizedProfitLossRate" :> {None, Flt(50)}
        @@ "unrealized_profit_loss_rate" :> {None, Flt(-20)})}

\* an array element that is not an object
NonMapping == Str(<<"x">>)

RecordPools == {
    {Dict(f) : f \in QuantityRecords} \cup {NonMapping},
    {Dict(f) : f \in CostRecords},
    {Dict(f) : f \in MarketValueRecords},
    {Dict(f) : f \in LastPriceRecords},
    {Dict(f) : f \in ProfitLossRecords},
    {Dict(f) : f \in RateRecords},
    {Dict(HeldBase),
     Dict(HeldBase @@ "ticker" :> Dict("symbol" :> Str(<<"S">>))),
     Dict(HeldBase @@ "ticker" :> NonMapping)} }

\* held positions that differ in what the profit/loss row is made of
NotANumber == Str(<<"N", "/", "A">>)

ProfitRecords ==
    {f @@ HeldBase :
        f \in RecordsOver({"unrealizedProfitLoss", "unrealizedProfitLossRate",
                           "costPrice", "lastPrice", "marketValue"},
        "unrealizedProfitLoss" :> {None, PyInt(3), PyInt(-4), PyInt(0), NotANumber}
        @@ "unrealizedProfitLossRate" :> {Flt(50), NotANumber}
        @@ "costPrice" :> {PyInt(7), PyInt(12), NotANumber}
        @@ "lastPrice" :> {PyInt(11), Flt(7000)}
        @@ "marketValue" :> {NotANumber})}

SeqsUpTo(S, n) == UNION {[1..k -> S] : k \in 0..n}

PositionLists == UNION {SeqsUpTo(P, MaxRecords) : P \in RecordPools}

SmallPool == {Dict("position" :> PyInt(5)), Dict("quantity" :> PyInt(10))}

Payloads ==
    {List(l) : l \in PositionLists}
    \cup {Dict("positions" :> x) : x \in {List(l) : l \in PositionLists} \cup {None}}
    \cup {Dict("data" :> x) : x \in {List(l) : l \in PositionLists} \cup {None}}
    \cup {Dict("positions" :> List(a) @@ "data" :> List(b)) :
            a \in SeqsUpTo(SmallPool, MaxRecords), b \in SeqsUpTo(SmallPool, MaxRecords)}
    \cup (UNION RecordPools \ {NonMapping})
    \cup {None, NonMapping, PyInt(0)}
    \cup {List(<<Dict(f)>>) : f \in ProfitRecords}

IdleFormat ==
    /\ value = None
    /\ currency = "<default>"
    /\ result = <<>>

Init ==
    /\ pc = "normalize"
    /\ positions_data \in Payloads
    /\ positions = None
    /\ valid_positions = <<>>
    /\ idx = 0
    /\ pos_idx = 0
    /\ quantity = None
    /\ market_value = None
    /\ cost_price = None
    /\ last_price = None
    /\ unrealized_pl = None
    /\ unrealized_pl_rate = None
    /\ out = <<>>
    /\ IdleFormat
    /\ IdleLater

\* positions = [] ... positions = [positions_data]; valid_positions = []
Normalize ==
    /\ pc = "normalize"
    /\ positions' = NormalizePositions(positions_data)
    /\ valid_positions' = <<>>
    /\ idx' = 1
    /\ pc' = "filter"
    /\ UNCHANGED <<positions_data, pos_idx, fieldVars, out>>
    /\ UNCHANGED <<fmtVars, laterVars>>

\* one iteration of `for pos in positions` over a mapping
FilterPosition ==
    /\ pc = "filter"
    /\ positions.t = "list"
    /\ idx <= Len(positions.v)
    /\ positions.v[idx].t = "dict"
    /\ quantity' = QuantityOf(positions.v[idx].v)
    /\ valid_positions' =
           IF Held(quantity') THEN Append(valid_positions, positions.v[idx])
           ELSE valid_positions
    /\ idx' = idx + 1
    /\ UNCHANGED <<pc, positions_data, positions, pos_idx, market_value, cost_price,
                   last_price, unrealized_pl, unrealized_pl_rate, out>>
    /\ UNCHANGED <<fmtVars, laterVars>>

\* iterating over None, or calling .get on an element that is not a mapping,
\* raises; the exception is caught by the handler around the positions step
FilterRaises ==
    /\ pc = "filter"
    /\ \/ positions.t # "list"
       \/ /\ positions.t = "list"
          /\ idx <= Len(positions.v)
          /\ positions.v[idx].t # "dict"
    /\ pc' = "error"
    /\ out' = Append(out, Line("positions_error", None, None))
    /\ UNCHANGED posVars
    /\ UNCHANGED <<fmtVars, laterVars>>

\* the filter loop is over and valid_positions is not empty: the count is printed
BeginDisplay ==
    /\ pc = "filter"
    /\ positions.t = "list"
    /\ idx > Len(positions.v)
    /\ Len(valid_positions) > 0
    /\ pos_idx' = 0
    /\ pc' = "display"
    /\ out' = Append(out, Line("held_count", None, PyInt(Len(valid_positions))))
    /\ UNCHANGED <<positions_data, positions, valid_positions, idx, fieldVars>>
    /\ UNCHANGED <<fmtVars, laterVars>>

\* the filter loop is over and valid_positions is empty: the message that no
\* position is held is printed
NoPositions ==
    /\ pc = "filter"
    /\ positions.t = "list"
    /\ idx > Len(positions.v)
    /\ Len(valid_positions) = 0
    /\ pc' = "done"
    /\ out' = Append(out, Line("no_positions", None, None))
    /\ UNCHANGED posVars
    /\ UNCHANGED <<fmtVars, laterVars>>

(***************************************************************************)
(* The price rows and the profit/loss row of a held position               *)
(*                                                 show_asset.py 556-634   *)
(* A float is the exact decimal of its thousandths; an amount of money is  *)
(* counted in millionths, the unit of a product of two such floats.  The   *)
(* explored values are finite.  Of the profit/loss row the marker and the  *)
(* amount are kept, the percentage that follows the amount is not.         *)
(***************************************************************************)
ZeroFloat == [k |-> "num", neg |-> FALSE, coef |-> 0, e |-> 0]

\* float(x) if x else 0
FloatOrZero(x) == IF Truthy(x) THEN ToFloat(x) ELSE ZeroFloat

\* float() raised ValueError or TypeError
Raises(d) == d.k \in {"bad", "type"}

\* a finite float with at most three decimals, in thousandths
Milli(d) ==
    LET a == d.coef * Pow10(d.e + 3)
    IN  IF d.neg THEN -a ELSE a

\* f"{x:,.2f}" for the float u/1000000: rounded to the nearest hundredth,
\* to even when it lies half way
Money(u) ==
    LET a == Abs(u)
        q == a \div 10000
        r == a % 10000
        c == IF r < 5000 THEN q
             ELSE IF r > 5000 THEN q + 1
             ELSE IF q % 2 = 0 THEN q ELSE q + 1
    IN  (IF u < 0 THEN <<"-">> ELSE <<>>) \o CommaNat(c \div 100) \o <<".">> \o Pad2(c % 100)

\* a variant that takes a profit of zero for a loss
PlSign_StrictGain(u) == IF u > 0 THEN "gain" ELSE "loss"

\* pl_sign = "📈" if pl_float >= 0 else "📉"
PlSign(u) == IF u >= 0 THEN "gain" ELSE "loss"

\* print(f"| 損益 | {pl_sign} ${pl_float:,.2f} (...) |")
ProfitLossLine(u) == Line("profit_loss", PlSign(u), Str(Money(u)))

\* the rows 現在価格, 取得単価 and 評価額, each printed when its float is > 0
PriceLines(last, cost, mv) ==
    (IF Positive(last) THEN <<Line("last_price", None, Str(Money(1000 * Milli(last))))>>
     ELSE <<>>)
    \o (IF Positive(cost) THEN <<Line("cost_price", None, Str(Money(1000 * Milli(cost))))>>
        ELSE <<>>)
    \o (IF Positive(mv) THEN <<Line("market_value", None, Str(Money(1000 * Milli(mv))))>>
        ELSE <<>>)

\* the handler of ValueError and TypeError: the raw values that are truthy
RawLines(pos) ==
    (IF Truthy(CostPriceOf(pos)) THEN <<Line("raw_cost_price", None, CostPriceOf(pos))>>
     ELSE <<>>)
    \o (IF Truthy(LastPriceOf(pos)) THEN <<Line("raw_last_price", None, LastPriceOf(pos))>>
        ELSE <<>>)
    \o (IF Truthy(MarketValueOf(pos))
        THEN <<Line("raw_market_value", None, MarketValueOf(pos))>>
        ELSE <<>>)

\* the rows printed by the try block of one position and by its handler
DetailLines(pos) ==
    LET cost == FloatOrZero(CostPriceOf(pos))
        last == FloatOrZero(LastPriceOf(pos))
        mv == FloatOrZero(MarketValueOf(pos))
        qty == FloatOrZero(QuantityOf(pos))
        pl == UnrealizedPlOf(pos)
        rate == UnrealizedPlRateOf(pos)
    IN  IF Raises(cost) \/ Raises(last) \/ Raises(mv) \/ Raises(qty)
        THEN RawLines(pos)
        ELSE IF pl # None /\ rate # None
        THEN IF Raises(ToFloat(pl)) \/ Raises(ToFloat(rate))
             THEN PriceLines(last, cost, mv) \o RawLines(pos)
             ELSE PriceLines(last, cost, mv)
                  \o <<ProfitLossLine(1000 * Milli(ToFloat(pl)))>>
        ELSE IF Positive(cost) /\ Positive(last) /\ Positive(qty)
        THEN PriceLines(last, cost, mv)
             \o <<ProfitLossLine((Milli(last) - Milli(cost)) * Milli(qty))>>
        ELSE PriceLines(last, cost, mv)

\* one iteration of `for pos_idx, pos in enumerate(valid_positions, 1)`
DisplayPosition ==
    /\ pc = "display"
    /\ pos_idx < Len(valid_positions)
    /\ TickerOf(valid_positions[pos_idx + 1].v).t = "dict"
    /\ pos_idx' = pos_idx + 1
    /\ LET pos == valid_positions[pos_idx + 1].v
       IN  /\ quantity' = QuantityOf(pos)
           /\ market_value' = MarketValueOf(pos)
           /\ cost_price' = CostPriceOf(pos)
           /\ last_price' = LastPriceOf(pos)
           /\ unrealized_pl' = UnrealizedPlOf(pos)
           /\ unrealized_pl_rate' = UnrealizedPlRateOf(pos)
    /\ out' = Append(out, Line("position", None, PyInt(pos_idx')))
                  \o DetailLines(valid_positions[pos_idx + 1].v)
    /\ UNCHANGED <<pc, positions_data, positions, valid_positions, idx>>
    /\ UNCHANGED <<fmtVars, laterVars>>

\* ticker_info.get(...) on a 'ticker' value that is not a mapping raises
\* (show_asset.py 515); the exception is caught by the handler around the
\* positions step (line 646) and the loop over the held positions ends there
DisplayRaises ==
    /\ pc = "display"
    /\ pos_idx < Len(valid_positions)
    /\ TickerOf(valid_positions[pos_idx + 1].v).t # "dict"
    /\ pos_idx' = pos_idx + 1
    /\ pc' = "error"
    /\ out' = Append(out, Line("positions_error", None, None))
    /\ UNCHANGED <<positions_data, positions, valid_positions, idx, fieldVars>>
    /\ UNCHANGED <<fmtVars, laterVars>>

\* every held position has been displayed
DisplayDone ==
    /\ pc = "display"
    /\ pos_idx = Len(valid_positions)
    /\ pc' = "done"
    /\ UNCHANGED <<posVars, out>>
    /\ UNCHANGED <<fmtVars, laterVars>>

Next ==
    \/ Normalize
    \/ FilterPosition
    \/ FilterRaises
    \/ BeginDisplay
    \/ NoPositions
    \/ DisplayPosition
    \/ DisplayRaises
    \/ DisplayDone

Spec == Init /\ [][Next]_vars

(***************************************************************************)
(* Vocabulary of the properties of the positions listing.                  *)
(***************************************************************************)
Normalized == pc \in {"filter", "display", "done", "error"}

Filtered == pc \in {"display", "done"}

Displayed == pc = "display" /\ pos_idx >= 1

HasKey(x, k) == x.t = "dict" /\ k \in DOMAIN x.v

BareObject(x) == x.t = "dict" /\ "positions" \notin DOMAIN x.v /\ "data" \notin DOMAIN x.v

\* a is a list holding the records of the list l, in the same order
SameRecords(a, l) ==
    /\ a.t = "list"
    /\ Len(a.v) = Len(l.v)
    /\ \A i \in 1..Len(l.v) : a.v[i] = l.v[i]

\* the record being displayed
CurrentPos == valid_positions[pos_idx].v

\* the logical fields: the ordered keys of each, the value resolved for the
\* record being displayed, and the value used when no key is there
FieldTable == <<
    [keys |-> <<"position", "quantity">>, val |-> quantity, dflt |-> PyInt(0)],
    [keys |-> <<"marketValue", "market_value">>, val |-> market_value, dflt |-> PyInt(0)],
    [keys |-> <<"costPrice", "cost_price", "cost">>, val |-> cost_price, dflt |-> PyInt(0)],
    [keys |-> <<"lastPrice", "last_price">>, val |-> last_price, dflt |-> PyInt(0)],
    [keys |-> <<"unrealizedProfitLoss", "unrealized_profit_loss">>,
     val |-> unrealized_pl, dflt |-> None] >>

\* index of the first key of keys that the record holds, 0 when it holds none
FirstPresent(pos, keys) ==
    IF \E i \in 1..Len(keys) : keys[i] \in DOMAIN pos
    THEN CHOOSE i \in 1..Len(keys) :
            /\ keys[i] \in DOMAIN pos
            /\ \A j \in 1..(i - 1) : keys[j] \notin DOMAIN pos
    ELSE 0

\* index of the first key of keys under which the record holds a value other
\* than None, 0 when there is none
FirstValued(pos, keys) ==
    LET valued(i) == keys[i] \in DOMAIN pos /\ pos[keys[i]] # None
    IN  IF \E i \in 1..Len(keys) : valued(i)
        THEN CHOOSE i \in 1..Len(keys) : valued(i) /\ \A j \in 1..(i - 1) : ~valued(j)
        ELSE 0

(***************************************************************************)
(* C1.  Normalization follows the priority list -> 'positions' -> 'data'   *)
(* -> whole value: a list is used as is; a mapping with the key            *)
(* 'positions' yields the value under it even when it also has 'data'; a   *)
(* mapping with only 'data' yields the value under 'data'; only a mapping  *)
(* with neither key is wrapped as a one-element sequence.                  *)
(***************************************************************************)
C1_NormalizationPriority ==
    Normalized =>
        /\ positions_data.t = "list" => positions = positions_data
        /\ HasKey(positions_data, "positions") =>
               positions = positions_data.v["positions"]
        /\ (HasKey(positions_data, "data") /\ ~HasKey(positions_data, "positions")) =>
               positions = positions_data.v["data"]
        /\ BareObject(positions_data) => positions = List(<<positions_data>>)
        /\ positions = List(<<positions_data>>) => BareObject(positions_data)

C1_Witness ==
    /\ Normalized
    /\ HasKey(positions_data, "positions")
    /\ HasKey(positions_data, "data")
    /\ positions_data.v["positions"] # positions_data.v["data"]
    /\ positions = positions_data.v["positions"]

(***************************************************************************)
(* C2.  The normalized sequence has exactly N records, in the order of the *)
(* payload, when the payload is an array of N records, a mapping whose     *)
(* 'positions' value is an array of N records, or a mapping (without       *)
(* 'positions') whose 'data' value is an array of N records; it has        *)
(* exactly 1 record when the payload is an object with neither key, the    *)
(* empty object included.                                                  *)
(***************************************************************************)
C2_RecordCounts ==
    Normalized =>
        /\ positions_data.t = "list" => SameRecords(positions, positions_data)
        /\ (HasKey(positions_data, "positions")
                /\ positions_data.v["positions"].t = "list") =>
               SameRecords(positions, positions_data.v["positions"])
        /\ (HasKey(positions_data, "data") /\ ~HasKey(positions_data, "positions")
                /\ positions_data.v["data"].t = "list") =>
               SameRecords(positions, positions_data.v["data"])
        /\ BareObject(positions_data) =>
               /\ positions.t = "list"
               /\ Len(positions.v) = 1
               /\ positions.v[1] = positions_data

C2_Witness ==
    /\ Normalized
    /\ positions_data.t = "dict"
    /\ DOMAIN positions_data.v = {"data"}
    /\ positions_data.v["data"].t = "list"
    /\ Len(positions_data.v["data"].v) = 2
    /\ positions_data.v["data"].v[1].t = "dict"
    /\ positions_data.v["data"].v[2].t = "dict"
    /\ positions_data.v["data"].v[1] # positions_data.v["data"].v[2]
    /\ positions.t = "list"
    /\ Len(positions.v) = 2
    /\ positions.v[1] = positions_data.v["data"].v[1]

(***************************************************************************)
(* C3.  As claimed: each logical field of the displayed record resolves to *)
(* the first non-absent value among its ordered keys, a lower-priority key *)
(* being used whenever every higher-priority key gives no value.           *)
(***************************************************************************)
C3_AsClaimed ==
    Displayed =>
        \A f \in 1..Len(FieldTable) :
            LET i == FirstValued(CurrentPos, FieldTable[f].keys)
            IN  i # 0 => FieldTable[f].val = CurrentPos[FieldTable[f].keys[i]]

\* C3, amended.  Each logical field of the displayed record resolves to the
\* value held under the first of its ordered keys that is present in the
\* record, a null held under that key included: a lower-priority key is used
\* only when every higher-priority key is missing from the record, and when
\* none of the keys is present the field is 0 (None for the P/L).  With
\* {position: 5, quantity: 10} the quantity resolves to 5.
C3_FirstPresentKey ==
    Displayed =>
        /\ \A f \in 1..Len(FieldTable) :
               LET i == FirstPresent(CurrentPos, FieldTable[f].keys)
               IN  FieldTable[f].val =
                       IF i # 0 THEN CurrentPos[FieldTable[f].keys[i]]
                       ELSE FieldTable[f].dflt
        /\ CurrentPos = ("position" :> PyInt(5) @@ "quantity" :> PyInt(10)) =>
               quantity = PyInt(5)

C3_Witness ==
    /\ Displayed
    /\ "costPrice" \in DOMAIN CurrentPos
    /\ CurrentPos["costPrice"] = None
    /\ "cost_price" \in DOMAIN CurrentPos
    /\ CurrentPos["cost_price"] = PyInt(8)
    /\ cost_price = None

(***************************************************************************)
(* C4.  The filter keeps a normalized record if and only if its reconciled *)
(* quantity parses to a number strictly greater than zero or cannot be     *)
(* parsed at all: "0", 0, a missing, null or negative quantity are         *)
(* excluded, an unparsable quantity such as "N/A" is retained, and the     *)
(* order of the retained records is unchanged.                             *)
(***************************************************************************)
ClaimedHeld(rec) ==
    LET q == QuantityOf(rec.v)
    IN  CASE q.t = "none" -> FALSE
          [] q.t = "int" -> q.n > 0
          [] q.t = "str" -> ParseNumber(q.s).k = "bad" \/ Positive(ParseNumber(q.s))
          [] OTHER -> FALSE

C4_HeldFilter ==
    Filtered => valid_positions = SelectSeq(positions.v, ClaimedHeld)

(***************************************************************************)
(* Vocabulary of the properties of format_amount.                          *)
(***************************************************************************)
Returned == pc = "returned"

Cur == EffectiveCurrency(currency)

StripCommas(s) == SelectSeq(s, LAMBDA c : c # ",")

\* digits in groups of three separated by commas, as in 1,234,567
IsCommaNat(s) ==
    /\ Len(s) >= 1
    /\ \A i \in 1..Len(s) : (s[i] = ",") <=> ((Len(s) - i + 1) % 4 = 0)
    /\ \A i \in 1..Len(s) : s[i] # "," => s[i] \in Digits
    /\ s[1] # ","
    /\ (s[1] = "0" => Len(s) = 1)

IsCommaInt(s) ==
    IF Len(s) >= 1 /\ s[1] = "-" THEN IsCommaNat(Drop(s, 1)) ELSE IsCommaNat(s)

\* a thousands-separated integer part, a point, and exactly two decimals
IsCommaTwoDecimals(s) ==
    /\ Len(s) >= 4
    /\ s[Len(s) - 2] = "."
    /\ s[Len(s) - 1] \in Digits
    /\ s[Len(s)] \in Digits
    /\ IsCommaInt(SubSeq(s, 1, Len(s) - 3))

\* plain digits with an optional minus sign: no separator, no point
IsPlainInt(s) ==
    LET ds == IF Len(s) >= 1 /\ s[1] = "-" THEN Drop(s, 1) ELSE s
    IN  Len(ds) >= 1 /\ AllDigits(ds)

\* the integer a rendered string denotes once its separators are removed
IntOfString(s) == TruncInt(ParseNumber(StripCommas(s)))

\* a finite value of magnitude at least 0.01
AtLeastCent(v) ==
    CASE v.t = "str" -> ParseNumber(v.s).k = "num" /\ ~BelowCent(ParseNumber(v.s))
      [] v.t = "int" -> Abs(v.n) >= 1
      [] v.t = "float" -> Abs(v.m) >= 10
      [] OTHER -> FALSE

\* a value of magnitude below 0.01
BelowCentValue(v) ==
    CASE v.t = "str" -> ParseNumber(v.s).k = "num" /\ BelowCent(ParseNumber(v.s))
      [] v.t = "int" -> v.n = 0
      [] v.t = "float" -> Abs(v.m) < 10
      [] OTHER -> FALSE

\* t is v truncated toward zero: |t| <= |v| < |t| + 1, with the sign of v
IsTruncationOf(t, v) ==
    CASE v.t = "int" -> t = v.n
      [] v.t = "float" ->
            /\ Abs(t) * 1000 <= Abs(v.m)
            /\ Abs(v.m) < (Abs(t) + 1) * 1000
            /\ (t < 0 => v.m < 0)
            /\ (t > 0 => v.m > 0)
      [] v.t = "str" ->
            LET d == ParseNumber(v.s)
            IN  /\ IF d.e >= 0 THEN Abs(t) = d.coef * Pow10(d.e)
                   ELSE /\ Abs(t) * Pow10(-d.e) <= d.coef
                        /\ d.coef < (Abs(t) + 1) * Pow10(-d.e)
                /\ (t < 0 => d.neg)
                /\ (t > 0 => ~d.neg)

\* the string s, two decimals long, is the float m/1000 rounded to hundredths
IsCentsOf(s, m) ==
    LET d == ParseNumber(StripCommas(s))
    IN  /\ d.k = "num"
        /\ d.e = -2
        /\ d.neg = (m < 0)
        /\ Abs(d.coef * 10 - Abs(m)) <= 5

(***************************************************************************)
(* C5.  As claimed: for every currency other than JPY and every string,    *)
(* int or float of magnitude at least 0.01, format_amount returns a string *)
(* with thousands separators and exactly two decimals.                     *)
(***************************************************************************)
C5_AsClaimed ==
    (Returned /\ Cur # "JPY" /\ AtLeastCent(value)) => IsCommaTwoDecimals(result)

\* C5, amended.  For every currency other than JPY and every finite float of
\* magnitude at least 0.01, format_amount returns the value rounded to
\* hundredths with thousands separators and exactly two decimals (1234.5 gives
\* "1,234.50"); a string of that magnitude is returned unchanged and an int is
\* returned as its plain digits.
C5_TwoDecimalsForFloat ==
    (Returned /\ Cur # "JPY" /\ AtLeastCent(value)) =>
        /\ value.t = "float" => IsCommaTwoDecimals(result) /\ IsCentsOf(result, value.m)
        /\ value = Flt(1234500) => result = <<"1", ",", "2", "3", "4", ".", "5", "0">>
        /\ value.t = "str" => result = value.s
        /\ value.t = "int" => IsPlainInt(result) /\ IntOfString(result) = value.n

C5_Witness ==
    /\ Returned
    /\ currency = "USD"
    /\ value = Flt(1234567890)
    /\ result = <<"1", ",", "2", "3", "4", ",", "5", "6", "7", ".", "8", "9">>

(***************************************************************************)
(* C6.  As claimed: with currency JPY, for every string, int or float of   *)
(* magnitude at least 0.01, format_amount returns the value truncated      *)
(* toward zero, with thousands separators and no decimals.                 *)
(***************************************************************************)
C6_AsClaimed ==
    (Returned /\ Cur = "JPY" /\ AtLeastCent(value)) =>
        IsCommaInt(result) /\ IsTruncationOf(IntOfString(result), value)

\* C6, amended.  With currency JPY, for every finite string, int or float of
\* magnitude at least 0.01, format_amount returns the value (a string being
\* first converted to a float) truncated toward zero with no decimals; an int
\* or a float is rendered with thousands separators, a string as plain digits
\* without separators.
C6_YenTruncated ==
    (Returned /\ Cur = "JPY" /\ AtLeastCent(value)) =>
        /\ IsTruncationOf(IntOfString(result), value)
        /\ value.t \in {"int", "float"} => IsCommaInt(result)
        /\ value.t = "str" => IsPlainInt(result)

C6_Witness ==
    /\ Returned
    /\ currency = "JPY"
    /\ value = Flt(-1234560)
    /\ result = <<"-", "1", ",", "2", "3", "4">>

(***************************************************************************)
(* C7.  The documented JPY examples: format_amount(1234.56, 'JPY') returns *)
(* "1,235", and 1234.9 formatted as JPY gives "1,235".                     *)
(***************************************************************************)
C7_DocumentedYenExamples ==
    (Returned /\ Cur = "JPY" /\ value \in {Flt(1234560), Flt(1234900)}) =>
        result = <<"1", ",", "2", "3", "5">>

(***************************************************************************)
(* C8.  For every input of magnitude below 0.01 format_amount returns "0"  *)
(* when the currency is JPY or the input is an int, and "0.00" otherwise.  *)
(***************************************************************************)
C8_NearZero ==
    (Returned /\ BelowCentValue(value)) =>
        result = IF Cur = "JPY" \/ value.t = "int"
                 THEN <<"0">>
                 ELSE <<"0", ".", "0", "0">>

(***************************************************************************)
(* C9.  format_amount("0E-10") with the default currency returns "0.00".   *)
(***************************************************************************)
C9_DocstringExample ==
    (Returned /\ currency = "<default>" /\ value = Str(<<"0", "E", "-", "1", "0">>)) =>
        result = <<"0", ".", "0", "0">>

(***************************************************************************)
(* C10.  format_amount returns "0" for None, for every currency code.      *)
(***************************************************************************)
C10_NoneIsZero ==
    (Returned /\ value = None) => result = <<"0">>

C10_Witness ==
    /\ Returned
    /\ value = None
    /\ currency = "EUR"
    /\ result = <<"0">>

(***************************************************************************)
(* C11.  format_amount never raises: whenever parsing or converting the    *)
(* input fails (a string Decimal() rejects such as "N/A", a NaN string, a  *)
(* non-finite value under JPY), the call returns and the result is the     *)
(* string form of the input value.                                         *)
(***************************************************************************)
\* the inputs on which a statement of the try block raises
ConversionFails ==
    \/ /\ value.t = "str"
       /\ \/ ParseNumber(value.s).k \in {"bad", "nan"}
          \/ /\ ParseNumber(value.s).k = "inf"
             /\ (Cur = "JPY" \/ Contains(value.s, JPY))
    \/ value.t = "fspecial" /\ Cur = "JPY"

C11_FallbackToRawString ==
    (Returned /\ ConversionFails) => result = value.s

C11_Witness ==
    /\ Returned
    /\ value = Str(<<"N", "/", "A">>)
    /\ ConversionFails
    /\ result = <<"N", "/", "A">>

(***************************************************************************)
(* display_asset_info(app_key, app_secret)         show_asset.py 266-668   *)
(* The whole run: the subscriptions request, then for every account its    *)
(* header, its balance and its positions (the positions step above).       *)
(***************************************************************************)
\* a response of the API; status Raised stands for a call that raises
Response(status, body) == [status |-> status, body |-> body]
Raised == -1

\* an issued request: the endpoint and the account it is about
Request(op, account) == [op |-> op, account |-> account]

A1 == Str(<<"A", "1">>)
USD == Str(<<"U", "S", "D">>)

\* the currency argument as format_amount tests it
CurrencyName(c) ==
    IF c = Str(JPY) THEN "JPY" ELSE IF c = USD THEN "USD" ELSE "N/A"

\* the six amounts of the table of one currency, in the order they are printed
AmountItems == <<"total_cash", "settled_cash", "unsettled_cash", "frozen_cash",
                 "available_to_withdraw", "stock_power">>

\* a variant that shows the default instead of the field of the response
AmountLine_Default(asset, cur, item) ==
    Line(item, cur, Str(format_amount(Str(<<"0">>), CurrencyName(cur))))

\* print(f"| ... | {format_amount(currency_asset.get(item, '0'), currency)} |")
AmountLine(asset, cur, item) ==
    Line(item, cur,
         Str(format_amount(Get(asset, item, Str(<<"0">>)), CurrencyName(cur))))

\* the lines of one element of account_currency_assets
AssetLines(asset) ==
    LET cur == Get(asset, "currency", Str(<<"N", "/", "A">>))
    IN  <<Line("currency_header", cur, None),
          Line("table_header", cur, None),
          Line("table_rule", cur, None)>>
        \o [i \in 1..Len(AmountItems) |-> AmountLine(asset, cur, AmountItems[i])]
        \o <<Line("blank", cur, None)>>

RECURSIVE AllAssetLines(_)
AllAssetLines(assets) ==
    IF assets = <<>> THEN <<>>
    ELSE AssetLines(Head(assets).v) \o AllAssetLines(Tail(assets))

\* the fields of balance_data other than the two that are displayed above
OtherInfo(data) == DOMAIN data \ {"account_id", "account_currency_assets"}

\* the lines of a 200 balance response whose body is a mapping
BalanceDataLines(data) ==
    (IF "account_id" \in DOMAIN data
     THEN <<Line("balance_account_id", None, data["account_id"])>> ELSE <<>>)
    \o (IF "account_currency_assets" \in DOMAIN data
        THEN AllAssetLines(data["account_currency_assets"].v) ELSE <<>>)
    \o (IF OtherInfo(data) # {}
        THEN <<Line("other_header", None, None)>>
             \o <<Line("other_info", None, data[CHOOSE k \in OtherInfo(data) : TRUE])>>
             \o <<Line("blank", None, None)>>
        ELSE <<>>)

\* the lines of the balance step: a raised exception (of the request, or of
\* the membership test on a body that is null) and a status other than 200
\* are reported
BalanceLines(resp) ==
    IF resp.status = Raised \/ (resp.status = 200 /\ resp.body.t # "dict")
    THEN <<Line("balance_error", None, None)>>
    ELSE IF resp.status # 200
    THEN <<Line("balance_failed", None, PyInt(resp.status)),
           Line("response_text", None, None)>>
    ELSE BalanceDataLines(resp.body.v)

(***************************************************************************)
(* Responses of the three endpoints that are explored.                     *)
(***************************************************************************)
\* the i-th account of a subscriptions response; the second one carries a
\* field besides its id
Account(i) ==
    IF i = 2
    THEN Dict("account_id" :> Str(<<"A", CharOf[i + 1]>>)
              @@ "account_type" :> Str(<<"C", "A", "S", "H">>))
    ELSE Dict("account_id" :> Str(<<"A", CharOf[i + 1]>>))

SubscriptionResponses ==
    {Response(Raised, None), Response(500, None), Response(200, List(<<>>))}
    \cup {Response(200, List([i \in 1..k |-> Account(i)])) : k \in 1..MaxAccounts}

DollarAsset ==
    Dict("currency" :> USD @@ "total_cash" :> Str(<<"1", "5", "0", "0", ".", "0", "0", "4">>))
YenAsset ==
    Dict("currency" :> Str(JPY) @@ "total_cash" :> Str(<<"1", "2", "3", "4", ".", "5", "6">>)
         @@ "stock_power" :> Str(<<"0", "E", "-", "1", "0">>))
UnnamedAsset == Dict("total_cash" :> Flt(1234560))

BalanceResponses ==
    {Response(Raised, None), Response(500, None), Response(200, None),
     Response(200, Dict("account_currency_assets" :> List(<<DollarAsset>>))),
     Response(200, Dict("account_id" :> A1
                        @@ "account_currency_assets" :> List(<<YenAsset, UnnamedAsset>>)
                        @@ "total_market_value" :> Str(<<"1", "0">>)))}

PositionsResponses ==
    {Response(Raised, None), Response(500, None),
     Response(200, List(<<>>)),
     Response(200, Dict("positions" :> List(<<>>))),
     Response(200, List(<<Dict(HeldBase)>>)),
     Response(200, Dict("data" :> List(<<Dict(HeldBase), Dict("position" :> PyInt(0))>>))),
     Response(200, List(<<NonMapping>>)),
     Response(200, List(<<Dict(HeldBase @@ "ticker" :> NonMapping),
                          Dict(HeldBase)>>))}

(***************************************************************************)
(* The run of display_asset_info.                                          *)
(***************************************************************************)
InitAsset ==
    /\ pc = "subscriptions"
    /\ subscriptions \in SubscriptionResponses
    /\ account_no = 0
    /\ balance_response = None
    /\ positions_response = None
    /\ requests = <<>>
    /\ IdlePositions
    /\ IdleFormat
    /\ IdleRest

\* the lines 305-308 and 315 printed before the subscriptions request
Heading ==
    <<Line("rule", None, None), Line("title", None, None), Line("rule", None, None),
      Line("blank", None, None), Line("fetching", None, None)>>

\* lines 305-334: the heading, the subscriptions request and the checks of
\* its response; an exception of the request is caught by the handler of
\* line 659
GetSubscriptions ==
    /\ pc = "subscriptions"
    /\ requests' = Append(requests, Request("get_app_subscriptions", None))
    /\ IF subscriptions.status = Raised
       THEN /\ out' = out \o Heading \o <<
                               Line("run_error", None, None)>>
            /\ pc' = "asset_done"
            /\ UNCHANGED account_no
       ELSE IF subscriptions.status # 200
       THEN /\ out' = out \o Heading \o <<
                               Line("subscriptions_failed", None,
                                    PyInt(subscriptions.status)),
                               Line("response_text", None, None)>>
            /\ pc' = "asset_done"
            /\ UNCHANGED account_no
       ELSE IF ~Truthy(subscriptions.body)
       THEN /\ out' = out \o Heading \o <<
                               Line("no_accounts", None, None)>>
            /\ pc' = "asset_done"
            /\ UNCHANGED account_no
       ELSE /\ out' = out \o Heading \o <<
                               Line("account_count", None,
                                    PyInt(Len(subscriptions.body.v)))>>
            /\ account_no' = 1
            /\ pc' = "account"
    /\ UNCHANGED <<subscriptions, balance_response, positions_response>>
    /\ UNCHANGED <<fmtVars, posVars, restVars>>

\* a variant that goes through the accounts from the last one
CurrentAccount_Reversed ==
    subscriptions.body.v[Len(subscriptions.body.v) + 1 - account_no].v

\* the account of the current iteration of `for idx, account in enumerate(...)`
CurrentAccount == subscriptions.body.v[account_no].v

\* lines 343-364: the header of one account, its other fields when it has
\* any, and the heading of the balance
BeginAccount ==
    /\ pc = "account"
    /\ out' = out
           \o <<Line("rule", None, None),
                Line("account", None, PyInt(account_no)),
                Line("rule", None, None),
                Line("account_id", None, Get(CurrentAccount, "account_id", None))>>
           \o (IF Cardinality(DOMAIN CurrentAccount) > 1
               THEN <<Line("account_other_header", None, None),
                      Line("account_other", None,
                           CurrentAccount[CHOOSE k \in DOMAIN CurrentAccount :
                                              k # "account_id"]),
                      Line("blank", None, None)>>
               ELSE <<>>)
           \o <<Line("balance_header", None, None)>>
    /\ pc' = "balance"
    /\ UNCHANGED <<assetVars, fmtVars, posVars, restVars>>

\* lines 365-433: the balance request of the account and its display
GetBalance ==
    /\ pc = "balance"
    /\ \E resp \in BalanceResponses :
          /\ balance_response' = resp
          /\ out' = out \o BalanceLines(resp)
    /\ requests' = Append(requests, Request("get_account_balance",
                                            Get(CurrentAccount, "account_id", None)))
    /\ pc' = "positions_request"
    /\ UNCHANGED <<subscriptions, account_no, positions_response>>
    /\ UNCHANGED <<fmtVars, posVars, restVars>>

\* lines 438-447 and 640-650: the positions request of the account; a 200
\* response goes on to the normalization, anything else is reported
GetPositions ==
    /\ pc = "positions_request"
    /\ requests' = Append(requests, Request("get_account_position",
                                            Get(CurrentAccount, "account_id", None)))
    /\ \E resp \in PositionsResponses :
          /\ positions_response' = resp
          /\ IF resp.status = Raised
             THEN /\ out' = out \o <<Line("positions_header", None, None),
                                     Line("positions_error", None, None)>>
                  /\ pc' = "next_account"
                  /\ UNCHANGED positions_data
             ELSE IF resp.status # 200
             THEN /\ out' = out \o <<Line("positions_header", None, None),
                                     Line("positions_failed", None, PyInt(resp.status))>>
                  /\ pc' = "next_account"
                  /\ UNCHANGED positions_data
             ELSE /\ out' = Append(out, Line("positions_header", None, None))
                  /\ positions_data' = resp.body
                  /\ pc' = "normalize"
    /\ UNCHANGED <<subscriptions, account_no, balance_response>>
    /\ UNCHANGED <<positions, valid_positions, idx, pos_idx, fieldVars>>
    /\ UNCHANGED <<fmtVars, restVars>>

\* a variant in which a failed positions step ends the loop over the accounts
NextAccount_AbortAfterFailure ==
    /\ pc \in {"done", "error", "next_account"}
    /\ IF pc = "done" /\ account_no < Len(subscriptions.body.v)
       THEN /\ account_no' = account_no + 1
            /\ pc' = "account"
            /\ UNCHANGED out
       ELSE /\ out' = out \o <<Line("rule", None, None),
                               Line("complete", None, None),
                               Line("rule", None, None)>>
            /\ pc' = "asset_done"
            /\ UNCHANGED account_no
    /\ UNCHANGED <<subscriptions, balance_response, positions_response, requests>>
    /\ UNCHANGED <<fmtVars, posVars, restVars>>

\* the positions step of the account is over: the next iteration of the loop
\* of line 341, or the closing message of lines 655-657
NextAccount ==
    /\ pc \in {"done", "error", "next_account"}
    /\ IF account_no < Len(subscriptions.body.v)
       THEN /\ account_no' = account_no + 1
            /\ pc' = "account"
            /\ UNCHANGED out
       ELSE /\ out' = out \o <<Line("rule", None, None),
                               Line("complete", None, None),
                               Line("rule", None, None)>>
            /\ pc' = "asset_done"
            /\ UNCHANGED account_no
    /\ UNCHANGED <<subscriptions, balance_response, positions_response, requests>>
    /\ UNCHANGED <<fmtVars, posVars, restVars>>

NextAsset ==
    \/ GetSubscriptions
    \/ BeginAccount
    \/ GetBalance
    \/ GetPositions
    \/ Normalize
    \/ FilterPosition
    \/ FilterRaises
    \/ BeginDisplay
    \/ NoPositions
    \/ DisplayPosition
    \/ DisplayRaises
    \/ DisplayDone
    \/ NextAccount

SpecAsset == InitAsset /\ [][NextAsset]_vars

(***************************************************************************)
(* Vocabulary of the properties of the run of display_asset_info.          *)
(***************************************************************************)
AssetDone == pc = "asset_done"

\* the line l is printed
Shown(l) == \E i \in 1..Len(out) : out[i] = l

\* the lines a, b and c are printed in this order
ShownInOrder(a, b, c) ==
    \E i, j, k \in 1..Len(out) : i < j /\ j < k /\ out[i] = a /\ out[j] = b /\ out[k] = c

EmptyPositions ==
    {List(<<>>), Dict("positions" :> List(<<>>)), Dict("data" :> List(<<>>))}

\* the scenario: one account A1, a balance of 1500.004 US dollars of total
\* cash, no position
Scenario ==
    /\ AssetDone
    /\ subscriptions = Response(200, List(<<Dict("account_id" :> A1)>>))
    /\ balance_response =
           Response(200, Dict("account_currency_assets" :> List(<<DollarAsset>>)))
    /\ positions_response.status = 200
    /\ positions_response.body \in EmptyPositions

(***************************************************************************)
(* C12 as stated: in the scenario the report shows account A1, a USD       *)
(* total-cash line whose amount is "1,500.00", and the message that no     *)
(* position is held.                                                       *)
(***************************************************************************)
C12_AsClaimed ==
    Scenario =>
        ShownInOrder(Line("account_id", None, A1),
                     Line("total_cash", USD,
                          Str(<<"1", ",", "5", "0", "0", ".", "0", "0">>)),
                     Line("no_positions", None, None))

(***************************************************************************)
(* C12.  In the scenario the report shows account A1, a USD total-cash     *)
(* line whose amount is the string of the response unchanged, "1500.004",  *)
(* and the message that no position is held, in this order.                *)
(***************************************************************************)
C12_EndToEnd ==
    Scenario =>
        ShownInOrder(Line("account_id", None, A1),
                     Line("total_cash", USD,
                          Str(<<"1", "5", "0", "0", ".", "0", "0", "4">>)),
                     Line("no_positions", None, None))

C12_Witness ==
    /\ Scenario
    /\ positions_response.body = List(<<>>)
    /\ Shown(Line("total_cash", USD, Str(<<"1", "5", "0", "0", ".", "0", "0", "4">>)))
    /\ Shown(Line("no_positions", None, None))
    /\ Len(requests) = 3

(***************************************************************************)
(* load_env_file()                                 show_asset.py 191-263   *)
(* (the same loop is in show_asset_v1.py 25-42 and show_asset_v2.py 54-71) *)
(* A line is the sequence of its characters without the line terminator,   *)
(* which strip() removes; the only white space explored is the blank.      *)
(***************************************************************************)
DoubleQuote == "\""
SingleQuote == "'"

RECURSIVE LStrip(_)
LStrip(s) == IF s # <<>> /\ Head(s) = " " THEN LStrip(Tail(s)) ELSE s

RECURSIVE RStrip(_)
RStrip(s) ==
    IF s # <<>> /\ s[Len(s)] = " " THEN RStrip(SubSeq(s, 1, Len(s) - 1)) ELSE s

\* str.strip()
Strip(s) == RStrip(LStrip(s))

\* str.startswith(c) and str.endswith(c) for a single character c
StartsWith(s, c) == s # <<>> /\ s[1] = c
EndsWith(s, c) == s # <<>> /\ s[Len(s)] = c

\* value[1:-1]
Slice1(v) == SubSeq(v, 2, Len(v) - 1)

\* lines 254-258: the removal of the quotes
Unquote(v) ==
    IF StartsWith(v, DoubleQuote) /\ EndsWith(v, DoubleQuote) THEN Slice1(v)
    ELSE IF StartsWith(v, SingleQuote) /\ EndsWith(v, SingleQuote) THEN Slice1(v)
    ELSE v

\* the result of a line that defines nothing
NoPair == [defined |-> FALSE, key |-> <<>>, value |-> <<>>]

\* lines 239-258: the key and the value of one line of the file
ParseLine(raw) ==
    LET line == Strip(raw)
        eq == FirstIn(line, {"="})
    IN  IF line = <<>> \/ StartsWith(line, "#") THEN NoPair
        ELSE IF eq = 0 THEN NoPair
        ELSE [defined |-> TRUE,
              key |-> Strip(SubSeq(line, 1, eq - 1)),
              value |-> Unquote(Strip(SubSeq(line, eq + 1, Len(line))))]

\* os.getenv(key): None when the key is not set
GetEnv(env, key) == IF key \in DOMAIN env THEN Str(env[key]) ELSE None

\* os.environ[key] = value
SetEnv(env, key, val) == [k \in DOMAIN env \cup {key} |-> IF k = key THEN val ELSE env[k]]

\* a variant that stores every definition, the last one winning
StoreLine_Overwrite(env, raw) ==
    LET p == ParseLine(raw)
    IN  IF p.defined /\ p.key # <<>> /\ p.value # <<>>
        THEN SetEnv(env, p.key, p.value)
        ELSE env

\* lines 262-263: if key and value and not os.getenv(key): os.environ[key] = value
StoreLine(env, raw) ==
    LET p == ParseLine(raw)
    IN  IF p.defined /\ p.key # <<>> /\ p.value # <<>> /\ ~Truthy(GetEnv(env, p.key))
        THEN SetEnv(env, p.key, p.value)
        ELSE env

(***************************************************************************)
(* Files and environments that are explored.                               *)
(***************************************************************************)
LineAlphabet == {"K", "v", "=", "#", " ", DoubleQuote, SingleQuote}

GeneratedLines == UNION {[1..k -> LineAlphabet] : k \in 0..MaxLineLen}

ExampleLines == {
    <<"K", "=", "v">>,
    <<"K", "=", "w">>,
    <<"P", "=", "v">>,
    <<"K", "=", DoubleQuote, "v", DoubleQuote>>,
    <<"K", "=", SingleQuote, "v", SingleQuote>>,
    <<"K", "=", DoubleQuote, "v", SingleQuote>>,
    <<"K", "=", DoubleQuote, DoubleQuote, "v", DoubleQuote, DoubleQuote>>,
    <<" ", "K", " ", "=", " ", "v", " ">>,
    <<"K", "=", "v", "=", "w">>,
    <<"#", "K", "=", "v">>,
    <<"K", "=", DoubleQuote>>,
    <<"K", "v">> }

EnvFiles ==
    {[exists |-> FALSE, lines |-> <<>>]}
    \cup {[exists |-> TRUE, lines |-> <<l>>] : l \in GeneratedLines}
    \cup {[exists |-> TRUE, lines |-> f] : f \in SeqsUpTo(ExampleLines, MaxLines)}

EmptyEnv == [k \in {} |-> <<>>]

\* the key K is not set, set to the empty string or set to x; the key P,
\* which most files do not name, is set or not
Environments ==
    LET ks == {EmptyEnv, SetEnv(EmptyEnv, <<"K">>, <<>>), SetEnv(EmptyEnv, <<"K">>, <<"x">>)}
    IN  ks \cup {SetEnv(e, <<"P">>, <<"p">>) : e \in ks}

InitEnv ==
    /\ pc = "load_env"
    /\ environ \in Environments
    /\ environ_before = environ
    /\ env_file \in EnvFiles
    /\ line_no = 0
    /\ IdleFormat
    /\ IdlePositions
    /\ IdleAsset
    /\ IdlePages
    /\ IdleMain
    /\ IdleStats

\* one iteration of `for line in f`
ReadLine ==
    /\ pc = "load_env"
    /\ env_file.exists
    /\ line_no < Len(env_file.lines)
    /\ line_no' = line_no + 1
    /\ environ' = StoreLine(environ, env_file.lines[line_no'])
    /\ UNCHANGED <<pc, environ_before, env_file>>
    /\ UNCHANGED <<fmtVars, posVars, out, assetVars, mainVars, pageVars, statVars>>

\* the file does not exist, or its last line has been read
EnvLoaded ==
    /\ pc = "load_env"
    /\ ~env_file.exists \/ line_no = Len(env_file.lines)
    /\ pc' = "env_loaded"
    /\ UNCHANGED envVars
    /\ UNCHANGED <<fmtVars, posVars, out, assetVars, mainVars, pageVars, statVars>>

NextEnv == ReadLine \/ EnvLoaded

SpecEnv == InitEnv /\ [][NextEnv]_vars

(***************************************************************************)
(* Vocabulary of the properties of load_env_file.                          *)
(***************************************************************************)
\* the key k is set to the same value as before the call
Kept(k) == k \in DOMAIN environ /\ environ[k] = environ_before[k]

(***************************************************************************)
(* C13.  load_env_file never changes the value of a key that is set in the *)
(* environment before the call, whatever the file defines for it: at every *)
(* point of the call every such key holds its value of before the call.    *)
(***************************************************************************)
C13_PresetKept ==
    pc \in {"load_env", "env_loaded"} =>
        \A k \in DOMAIN environ_before : Kept(k)

(***************************************************************************)
(* C14.  load_env_file parses the file line by line: a blank line, a line  *)
(* starting with '#' and a line without '=' contribute nothing; a line     *)
(* KEY=VALUE is split at its first '=', both sides are trimmed, and one    *)
(* pair of matching surrounding single or double quotes is stripped from   *)
(* the value before it is stored.                                          *)
(***************************************************************************)
\* the value without its pair of surrounding quotes, when it has one
ClaimedValue(v) ==
    IF Len(v) >= 2 /\ v[1] = v[Len(v)] /\ v[1] \in {DoubleQuote, SingleQuote}
    THEN SubSeq(v, 2, Len(v) - 1)
    ELSE v

\* the key and the value that a line contributes, as the claim describes them
ClaimedPair(raw) ==
    LET line == Strip(raw)
        eq == FirstIn(line, {"="})
    IN  IF line = <<>> \/ line[1] = "#" \/ eq = 0 THEN NoPair
        ELSE [defined |-> TRUE,
              key |-> Strip(SubSeq(line, 1, eq - 1)),
              value |-> ClaimedValue(Strip(SubSeq(line, eq + 1, Len(line))))]

\* the environment after a line, a pair being stored when its key and value
\* are not empty and the key holds no value yet
ClaimedStore(env, raw) ==
    LET p == ClaimedPair(raw)
    IN  IF /\ p.defined /\ p.key # <<>> /\ p.value # <<>>
           /\ (p.key \notin DOMAIN env \/ env[p.key] = <<>>)
        THEN [k \in DOMAIN env \cup {p.key} |-> IF k = p.key THEN p.value ELSE env[k]]
        ELSE env

C14_LineParsing ==
    [][line_no' = line_no + 1 =>
           environ' = ClaimedStore(environ, env_file.lines[line_no'])]_vars

(***************************************************************************)
(* The Markdown loggers and the main functions of the scripts.             *)
(*   show_asset.py      MarkdownLogger 51-104, main 671-804                *)
(*   show_pos.py        MarkdownLogger 18-36,  main 273-336                *)
(*   show_symbol_jp.py  MarkdownLogger 13-33,  main 35-218                 *)
(*   show_his.py        MarkdownLogger 44-80,  main 274-485                *)
(*   show_api_endpoint.py  add_output 291-294, save_output 440-449,        *)
(*                         main 452-470                                    *)
(* events records, in order, every message that reaches the console and    *)
(* every opening of and write to the Markdown file.  A message stands for  *)
(* one block of printed lines.                                             *)
(***************************************************************************)
\* via: "logger" for a write made by MarkdownLogger.write, "print" for the
\* print of show_his MarkdownLogger.print, "direct" for a print that goes to
\* the terminal itself, "init" for a write of the constructor;
\* marked: the call says to_file=False
Event(sink, op, msg, via, marked) ==
    [sink |-> sink, op |-> op, msg |-> msg, via |-> via, marked |-> marked]

\* open(filename, 'w'): the file is created or emptied
FileOpen == Event("file", "open", "", "init", FALSE)

\* a variant of MarkdownLogger.write that writes to the terminal only
LoggerWrite_TerminalOnly(message) ==
    <<Event("console", "write", message, "logger", FALSE)>>

\* MarkdownLogger.write(message) of show_asset.py, show_pos.py and
\* show_symbol_jp.py: self.terminal.write(message), then the write to the file
LoggerWrite(message) ==
    <<Event("console", "write", message, "logger", FALSE),
      Event("file", "write", message, "logger", FALSE)>>

\* print(message) while sys.stdout is so
Emit(ev, so, message) ==
    IF so = "logger" THEN ev \o LoggerWrite(message)
    ELSE Append(ev, Event("console", "write", message, "direct", FALSE))

RECURSIVE EmitAll(_, _, _)
EmitAll(ev, so, messages) ==
    IF messages = <<>> THEN ev
    ELSE EmitAll(Emit(ev, so, Head(messages)), so, Tail(messages))

\* one call of show_his MarkdownLogger.print
Call(message, to_file, to_console) ==
    [message |-> message, to_file |-> to_file, to_console |-> to_console]

\* a variant of print that buffers every message
PrintLines_All(ls, c) == Append(ls, c.message)

\* show_his.py 70-71: if to_file: self.lines.append(message)
PrintLines(ls, c) == IF c.to_file THEN Append(ls, c.message) ELSE ls

\* show_his.py 68-69: if to_console: print(message)
PrintEvents(ev, c) ==
    IF c.to_console
    THEN Append(ev, Event("console", "write", c.message, "print", ~c.to_file))
    ELSE ev

\* a print of show_his.py that does not go through the logger
Plain(message) == [message |-> message, plain |-> TRUE]

IsPlain(c) == "plain" \in DOMAIN c

\* the logger and the console after a sequence of calls of print and of
\* plain prints
RECURSIVE PrintAll(_, _)
PrintAll(st, cs) ==
    IF cs = <<>> THEN st
    ELSE IF IsPlain(Head(cs))
    THEN PrintAll([lines |-> st.lines,
                   events |-> Append(st.events,
                                     Event("console", "write", Head(cs).message,
                                           "direct", FALSE)),
                   calls |-> st.calls],
                  Tail(cs))
    ELSE PrintAll([lines |-> PrintLines(st.lines, Head(cs)),
                   events |-> PrintEvents(st.events, Head(cs)),
                   calls |-> Append(st.calls, Head(cs))],
                  Tail(cs))

\* a variant that writes the file twice
Save_Twice(ev, ls) ==
    ev \o <<FileOpen>>
       \o [i \in 1..Len(ls) |-> Event("file", "write", ls[i], "save", FALSE)]
       \o <<FileOpen>>
       \o [i \in 1..Len(ls) |-> Event("file", "write", ls[i], "save", FALSE)]
       \o <<Event("console", "write", "saved", "direct", FALSE)>>

\* show_his.py 73-78: save() writes '\n'.join(self.lines) to the file opened
\* with 'w' and prints a confirmation to the console
Save(ev, ls) ==
    ev \o <<FileOpen>>
       \o [i \in 1..Len(ls) |-> Event("file", "write", ls[i], "save", FALSE)]
       \o <<Event("console", "write", "saved", "direct", FALSE)>>

\* a variant that tests the key only
MissingCredentials_KeyOnly(k, sec) == ~Truthy(k)

\* if not app_key or not app_secret
MissingCredentials(k, sec) == ~Truthy(k) \/ ~Truthy(sec)

(***************************************************************************)
(* The runs that are explored.                                             *)
(***************************************************************************)
Scripts == {"show_asset", "show_pos", "show_symbol_jp", "show_his", "show_api_endpoint"}

\* what os.getenv returns for a credential: not set, empty, or a value
CredentialValues == {None, Str(<<>>), Str(<<"k">>)}

\* the data-dependent messages of a report
ReportMessages == {"r1", "r2"}
Reports == SeqsUpTo(ReportMessages, MaxReport)

\* the outcomes of the API steps of show_his main (lines 326-366)
HisOutcomes == {"init_failed", "account_failed", "orders_failed", "ok"}

HisState == [lines |-> lines, events |-> events, calls |-> calls]

InitMain ==
    /\ pc = "main_start"
    /\ script \in Scripts
    /\ app_key \in CredentialValues
    /\ app_secret \in CredentialValues
    /\ stdout = "terminal"
    /\ log_open = FALSE
    /\ events = <<>>
    /\ lines = <<>>
    /\ calls = <<>>
    /\ client = 0
    /\ raised = FALSE
    /\ IdleFormat
    /\ IdlePositions
    /\ IdleAsset
    /\ IdlePages
    /\ IdleEnv
    /\ IdleStats

\* the logger is created: show_asset.py 714-715 and show_symbol_jp.py 43-44
\* (the constructor opens the file and keeps the handle; the one of
\* show_symbol_jp writes a heading to the file), show_pos.py 294 (the
\* constructor empties the file and keeps no handle), show_his.py 286 (no
\* file is opened and sys.stdout is not replaced)
Install ==
    /\ script \in {"show_asset", "show_pos", "show_symbol_jp", "show_his"}
    /\ pc = IF script = "show_pos" THEN "main_install" ELSE "main_start"
    /\ CASE script = "show_asset" ->
               /\ events' = Append(events, FileOpen)
               /\ log_open' = TRUE
               /\ stdout' = "logger"
               /\ UNCHANGED lines
         [] script = "show_symbol_jp" ->
               /\ events' = events \o <<FileOpen,
                                        Event("file", "write", "file_heading", "init", FALSE)>>
               /\ log_open' = TRUE
               /\ stdout' = "logger"
               /\ UNCHANGED lines
         [] script = "show_pos" ->
               /\ events' = Append(events, FileOpen)
               /\ stdout' = "logger"
               /\ UNCHANGED <<log_open, lines>>
         [] script = "show_his" ->
               /\ lines' = <<>>
               /\ UNCHANGED <<events, log_open, stdout>>
    /\ pc' = "main_header"
    /\ UNCHANGED <<script, app_key, app_secret, calls, client, requests, raised>>
    /\ UNCHANGED otherThanMain

\* the heading of the report: show_asset.py 722-728, show_pos.py 297-304,
\* show_symbol_jp.py 46-53, show_his.py 289-294
Header ==
    /\ pc = "main_header"
    /\ IF script = "show_his"
       THEN LET st == PrintAll(HisState, <<Call("header", TRUE, TRUE)>>)
            IN  /\ lines' = st.lines
                /\ events' = st.events
                /\ calls' = st.calls
       ELSE /\ events' = Emit(events, stdout, "header")
            /\ UNCHANGED <<lines, calls>>
    /\ pc' = IF script = "show_pos" THEN "main_api" ELSE "main_credentials"
    /\ UNCHANGED <<script, app_key, app_secret, stdout, log_open, client, requests,
                   raised>>
    /\ UNCHANGED otherThanMain

\* the credentials are read and tested: show_asset.py 734-772,
\* show_pos.py 276-286 (before the logger is created), show_symbol_jp.py
\* 55-70 (the run goes on in both cases), show_his.py 297-322
Credentials ==
    /\ pc = IF script = "show_pos" THEN "main_start" ELSE "main_credentials"
    /\ CASE script = "show_asset" ->
               IF MissingCredentials(app_key, app_secret)
               THEN /\ events' = Emit(events, stdout, "remediation")
                    /\ pc' = "main_finally"
                    /\ UNCHANGED <<lines, calls>>
               ELSE /\ pc' = "main_api"
                    /\ UNCHANGED <<events, lines, calls>>
         [] script = "show_pos" ->
               IF MissingCredentials(app_key, app_secret)
               THEN /\ events' = Emit(events, stdout, "remediation")
                    /\ pc' = "main_exit"
                    /\ UNCHANGED <<lines, calls>>
               ELSE /\ pc' = "main_install"
                    /\ UNCHANGED <<events, lines, calls>>
         [] script = "show_symbol_jp" ->
               /\ events' = Emit(events, stdout,
                                 IF MissingCredentials(app_key, app_secret)
                                 THEN "remediation" ELSE "credentials_ok")
               /\ pc' = "main_api"
               /\ UNCHANGED <<lines, calls>>
         [] script = "show_his" ->
               IF MissingCredentials(app_key, app_secret)
               THEN LET st == PrintAll(HisState, <<Call("checking", FALSE, TRUE),
                                                   Call("remediation", TRUE, TRUE)>>)
                    IN  /\ lines' = st.lines
                        /\ calls' = st.calls
                        /\ events' = Save(st.events, st.lines)
                        /\ pc' = "main_exit"
               ELSE LET st == PrintAll(HisState, <<Call("checking", FALSE, TRUE),
                                                   Call("credentials_ok", FALSE, TRUE),
                                                   Call("", TRUE, TRUE)>>)
                    IN  /\ lines' = st.lines
                        /\ calls' = st.calls
                        /\ events' = st.events
                        /\ pc' = "main_api"
    /\ UNCHANGED <<script, app_key, app_secret, stdout, log_open, client, requests,
                   raised>>
    /\ UNCHANGED otherThanMain

\* the calls of show_his main for one outcome of its API steps (lines 325-480)
HisCalls(outcome, rep) ==
    <<Call("connecting", FALSE, TRUE)>>
    \o (IF outcome = "init_failed"
        THEN <<Plain("init_error"), Call("init_failed", TRUE, TRUE)>>
        ELSE <<Call("connected", FALSE, TRUE), Call("", TRUE, TRUE),
               Call("fetching_account", FALSE, TRUE)>>
             \o (IF outcome = "account_failed"
                 THEN <<Plain("account_error"), Call("account_failed", TRUE, TRUE)>>
                 ELSE <<Call("account_id_prefix", FALSE, TRUE), Call("", TRUE, TRUE),
                        Call("fetching_orders", FALSE, TRUE)>>
                      \o (IF outcome = "orders_failed"
                          THEN <<Plain("orders_error"), Call("orders_failed", TRUE, TRUE)>>
                          ELSE <<Call("order_count", FALSE, TRUE), Call("", TRUE, TRUE)>>
                               \o [i \in 1..Len(rep) |-> Call(rep[i], TRUE, TRUE)])))

\* the requests of show_his main for one outcome of its API steps
HisRequests(outcome) ==
    IF outcome = "init_failed" THEN <<>>
    ELSE IF outcome = "account_failed" THEN <<Request("get_app_subscriptions", None)>>
    ELSE <<Request("get_app_subscriptions", None), Request("list_today_orders", A1)>>

\* the API part of the run: show_asset.py 784-790 (display_asset_info and
\* the closing lines), show_pos.py 304-328, show_his.py 325-480; the
\* report of show_symbol_jp.py 73-215 uses no API
RunApi ==
    /\ pc = "main_api"
    /\ CASE script = "show_asset" ->
               /\ \E rep \in Reports :
                     events' = EmitAll(events, stdout, rep \o <<"closing">>)
               /\ client' = client + 1
               /\ requests' = Append(requests, Request("get_app_subscriptions", None))
               /\ pc' = "main_finally"
               /\ UNCHANGED <<lines, calls>>
         [] script = "show_pos" ->
               /\ \E rep \in Reports :
                     \/ /\ events' = EmitAll(events, stdout, <<"no_account">>)
                        /\ requests' = Append(requests,
                                              Request("get_app_subscriptions", None))
                     \/ /\ events' = EmitAll(events, stdout, rep \o <<"closing">>)
                        /\ requests' = requests
                               \o <<Request("get_app_subscriptions", None),
                                    Request("get_account_position", A1)>>
               /\ client' = client + 1
               /\ pc' = "main_finally"
               /\ UNCHANGED <<lines, calls>>
         [] script = "show_symbol_jp" ->
               /\ events' = EmitAll(events, stdout, <<"report", "closing">>)
               /\ pc' = "main_close"
               /\ UNCHANGED <<lines, calls, client, requests>>
         [] script = "show_his" ->
               \E outcome \in HisOutcomes, rep \in Reports :
                  LET st == PrintAll(HisState, HisCalls(outcome, rep))
                  IN  /\ lines' = st.lines
                      /\ calls' = st.calls
                      /\ events' = IF outcome = "ok" THEN st.events
                                   ELSE Save(st.events, st.lines)
                      /\ client' = client + 1
                      /\ requests' = requests \o HisRequests(outcome)
                      /\ pc' = IF outcome = "ok" THEN "main_save" ELSE "main_exit"
    /\ UNCHANGED <<script, app_key, app_secret, stdout, log_open, raised>>
    /\ UNCHANGED otherThanMain

\* the finally clause: show_asset.py 798-804 restores sys.stdout, closes the
\* logger and prints the path of the file; show_pos.py 336 restores sys.stdout
Finally ==
    /\ pc = "main_finally"
    /\ script \in {"show_asset", "show_pos"}
    /\ stdout' = "terminal"
    /\ IF script = "show_asset"
       THEN /\ log_open' = FALSE
            /\ events' = Emit(events, stdout', "file_created")
       ELSE UNCHANGED <<log_open, events>>
    /\ pc' = "main_exit"
    /\ UNCHANGED <<script, app_key, app_secret, lines, calls, client, requests,
                   raised>>
    /\ UNCHANGED otherThanMain

\* show_symbol_jp.py 218 and 31-33: logger.close() closes the file and
\* restores sys.stdout
Close ==
    /\ pc = "main_close"
    /\ script = "show_symbol_jp"
    /\ log_open' = FALSE
    /\ stdout' = "terminal"
    /\ pc' = "main_exit"
    /\ UNCHANGED <<script, app_key, app_secret, events, lines, calls, client, requests,
                   raised>>
    /\ UNCHANGED otherThanMain

\* show_his.py 482-485: save(), then two more calls of print
SaveAndFinish ==
    /\ pc = "main_save"
    /\ script = "show_his"
    /\ LET st == PrintAll([lines |-> lines, events |-> Save(events, lines),
                           calls |-> calls],
                          <<Call("", TRUE, TRUE), Call("done", FALSE, TRUE)>>)
       IN  /\ lines' = st.lines
           /\ events' = st.events
           /\ calls' = st.calls
    /\ pc' = "main_exit"
    /\ UNCHANGED <<script, app_key, app_secret, stdout, log_open, client, requests,
                   raised>>
    /\ UNCHANGED otherThanMain

\* an exception is raised by a statement of main after the logger is created
\* (a print that fails, load_dotenv, the construction of the API client):
\* show_asset.py runs its finally clause, show_pos.py reports it (line 331)
\* and runs its finally clause, show_symbol_jp.py and show_his.py have no
\* handler and main ends there
Raise ==
    /\ pc \in {"main_header", "main_credentials", "main_api"}
    /\ raised' = TRUE
    /\ CASE script = "show_asset" ->
               /\ pc' = "main_finally"
               /\ UNCHANGED events
         [] script = "show_pos" ->
               /\ events' = Emit(events, stdout, "unexpected_error")
               /\ pc' = "main_finally"
         [] script \in {"show_symbol_jp", "show_his"} ->
               /\ pc' = "main_exit"
               /\ UNCHANGED events
    /\ UNCHANGED <<script, app_key, app_secret, stdout, log_open, lines, calls, client,
                   requests>>
    /\ UNCHANGED otherThanMain

\* show_api_endpoint.py 452-463: main prints a banner, then display_sdk_check
\* and display_all_endpoints emit their lines with add_output (lines 291-294:
\* the line is appended to output_lines and printed)
ListEndpoints ==
    /\ pc = "main_start"
    /\ script = "show_api_endpoint"
    /\ \E rep \in Reports :
          LET st == PrintAll(HisState,
                             <<Plain("banner"), Call("sdk_check", TRUE, TRUE)>>
                             \o [i \in 1..Len(rep) |-> Call(rep[i], TRUE, TRUE)])
          IN  /\ lines' = st.lines
              /\ events' = st.events
              /\ calls' = st.calls
    /\ pc' = "main_save_output"
    /\ UNCHANGED <<script, app_key, app_secret, stdout, log_open, client, requests,
                   raised>>
    /\ UNCHANGED otherThanMain

\* show_api_endpoint.py 466-470 and 440-449: save_output writes
\* '\n'.join(self.output_lines) and prints the path and the size of the
\* file, then main prints that it is done
SaveOutput ==
    /\ pc = "main_save_output"
    /\ script = "show_api_endpoint"
    /\ events' = Append(Save(events, lines),
                        Event("console", "write", "done", "direct", FALSE))
    /\ pc' = "main_exit"
    /\ UNCHANGED <<script, app_key, app_secret, stdout, log_open, lines, calls, client,
                   requests, raised>>
    /\ UNCHANGED otherThanMain

NextMain ==
    \/ Install
    \/ Header
    \/ Credentials
    \/ RunApi
    \/ Finally
    \/ Close
    \/ SaveAndFinish
    \/ ListEndpoints
    \/ SaveOutput
    \/ Raise

SpecMain == InitMain /\ [][NextMain]_vars

(***************************************************************************)
(* The MarkdownLogger of show_his.py (lines 44-80) under any sequence of   *)
(* calls of print and save.                                                *)
(***************************************************************************)
\* the messages of the explored calls: one that main prints with
\* to_file=False (show_his.py 321) and one line of the report
LoggerMessages == {"credentials_ok", "r1"}

\* logger = MarkdownLogger(md_filename), show_his.py 286 and 51-57
InitLogger ==
    /\ pc = "logger_ready"
    /\ script = "show_his"
    /\ app_key = None
    /\ app_secret = None
    /\ stdout = "terminal"
    /\ log_open = FALSE
    /\ events = <<>>
    /\ lines = <<>>
    /\ calls = <<>>
    /\ client = 0
    /\ raised = FALSE
    /\ IdleFormat
    /\ IdlePositions
    /\ IdleAsset
    /\ IdlePages
    /\ IdleEnv
    /\ IdleStats

\* logger.print(message, to_file, to_console), show_his.py 59-71
LoggerPrint ==
    /\ pc \in {"logger_ready", "logger_saved"}
    /\ Len(calls) < MaxPrints
    /\ \E m \in LoggerMessages, to_file \in BOOLEAN, to_console \in BOOLEAN :
          LET st == PrintAll(HisState, <<Call(m, to_file, to_console)>>)
          IN  /\ lines' = st.lines
              /\ events' = st.events
              /\ calls' = st.calls
    /\ UNCHANGED <<pc, script, app_key, app_secret, stdout, log_open, client, requests,
                   raised>>
    /\ UNCHANGED otherThanMain

\* logger.save(), show_his.py 73-78
LoggerSave ==
    /\ pc = "logger_ready"
    /\ events' = Save(events, lines)
    /\ pc' = "logger_saved"
    /\ UNCHANGED <<script, app_key, app_secret, stdout, log_open, lines, calls, client,
                   requests, raised>>
    /\ UNCHANGED otherThanMain

\* logger.save() when the file cannot be opened, show_his.py 79-80: the
\* error is printed and nothing is written
LoggerSaveFails ==
    /\ pc = "logger_ready"
    /\ events' = Append(events, Event("console", "write", "save_error", "direct", FALSE))
    /\ pc' = "logger_save_failed"
    /\ UNCHANGED <<script, app_key, app_secret, stdout, log_open, lines, calls, client,
                   requests, raised>>
    /\ UNCHANGED otherThanMain

NextLogger ==
    \/ LoggerPrint
    \/ LoggerSave
    \/ LoggerSaveFails

SpecLogger == InitLogger /\ [][NextLogger]_vars

(***************************************************************************)
(* The pagination loops.                                                   *)
(*   get_today_orders   show_his.py 148-197                                *)
(*   get_positions      show_pos.py 97-160                                 *)
(* One step issues a request, the next one receives and handles the        *)
(* response.                                                               *)
(***************************************************************************)
\* page_size = 100 of get_positions
PositionsPageSize == 100

\* the keyword argument last_instrument_id is not passed
NoCursor == [t |-> "absent"]

\* the arguments of one page request
PageRequest(op, account, size, cursor) ==
    [op |-> op, account |-> account, page_size |-> size, cursor |-> cursor]

\* show_his.py 168-172: the cursor is always passed, None at first;
\* show_pos.py 115-126: the cursor is passed when it is truthy
NextRequest(f, account, size, last) ==
    IF f = "get_today_orders"
    THEN PageRequest("list_today_orders", account, size, last)
    ELSE PageRequest("get_account_position", account, size,
                     IF Truthy(last) THEN last ELSE NoCursor)

\* the state of a loop after a response: whether the function has returned,
\* what it returned, the accumulated records and the cursor
LoopReturned(res, all, last) == [done |-> TRUE, result |-> res, all |-> all, last |-> last]
LoopContinues(all, last) == [done |-> FALSE, result |-> None, all |-> all, last |-> last]

\* a variant that never takes a page for the last one by its length
ShortPage_Never(orders, size) == FALSE

\* show_his.py 188: if len(orders) < page_size: break
ShortPage(orders, size) == Len(orders) < size

\* a variant that returns the orders of the earlier pages on a failure
OrdersPage_KeepOnFailure(resp, all, last, size) ==
    IF resp.status # 200 THEN LoopReturned(List(all), all, last)
    ELSE LET orders == Get(resp.body.v, "data", List(<<>>)).v
         IN  IF orders = <<>> THEN LoopReturned(List(all), all, last)
             ELSE IF ShortPage(orders, size)
                  THEN LoopReturned(List(all \o orders), all \o orders, last)
                  ELSE LoopContinues(all \o orders,
                                 Get(orders[Len(orders)].v, "client_order_id", None))

\* one iteration of the loop of get_today_orders on a response,
\* show_his.py 174-192 and the handler at 196-197
OrdersPage(resp, all, last, size) ==
    IF resp.status # 200 THEN LoopReturned(None, all, last)
    ELSE LET orders == Get(resp.body.v, "data", List(<<>>)).v
         IN  IF orders = <<>> THEN LoopReturned(List(all), all, last)
             ELSE IF ShortPage(orders, size)
                  THEN LoopReturned(List(all \o orders), all \o orders, last)
                  ELSE LoopContinues(all \o orders,
                                 Get(orders[Len(orders)].v, "client_order_id", None))

\* a variant that keeps a holding whose qty is not a number
PositiveQty_KeepUnparsed(holding) ==
    LET d == ToFloat(Get(holding.v, "qty", Str(<<"0">>)))
    IN  d.k \in {"bad", "type"} \/ (d.k \in {"num", "inf"} /\ Positive(d))

\* show_pos.py 133-140: Decimal(qty) > 0, a conversion or a comparison that
\* raises making the holding skipped
PositiveQty(holding) ==
    LET d == ToFloat(Get(holding.v, "qty", Str(<<"0">>)))
    IN  d.k \in {"num", "inf"} /\ Positive(d)

\* show_pos.py 144: if has_next and holdings
MorePositions(has_next, holdings) == Truthy(has_next) /\ holdings # <<>>

\* one iteration of the loop of get_positions on a response,
\* show_pos.py 128-154 and the handler at 158-160
PositionsPage(resp, all, last) ==
    IF resp.status = Raised THEN LoopReturned(List(<<>>), all, last)
    ELSE IF resp.status # 200 THEN LoopReturned(List(all), all, last)
    ELSE LET holdings == Get(resp.body.v, "holdings", List(<<>>)).v
             kept == all \o SelectSeq(holdings, PositiveQty)
             has_next == Get(resp.body.v, "has_next", PyBool(FALSE))
         IN  IF MorePositions(has_next, holdings)
             THEN LoopContinues(kept, Get(holdings[Len(holdings)].v, "instrument_id", None))
             ELSE LoopReturned(List(kept), kept, last)

(***************************************************************************)
(* The responses that are explored.                                        *)
(***************************************************************************)
IdKey(f) == IF f = "get_today_orders" THEN "client_order_id" ELSE "instrument_id"

\* the records of a page: two that carry an id and one that carries none
PageRecords(f) ==
    {Dict((IdKey(f) :> Str(<<"a">>)) @@ ("qty" :> Str(<<"1">>))),
     Dict((IdKey(f) :> Str(<<"b">>)) @@ ("qty" :> Str(<<"0">>))),
     Dict("qty" :> Str(<<"x">>))}

\* what a page request may give: a raised exception, a non-200 status, or a
\* body with or without its keys
PageResponses(f) ==
    LET PagesOf == SeqsUpTo(PageRecords(f), MaxPageSize)
    IN  {Response(Raised, None), Response(500, None), Response(200, Dict(<<>>))}
        \cup (IF f = "get_today_orders"
              THEN {Response(200, Dict("data" :> List(p))) : p \in PagesOf}
              ELSE {Response(200, Dict("holdings" :> List(p))) : p \in PagesOf}
                   \cup {Response(200, Dict(("holdings" :> List(p))
                                            @@ ("has_next" :> PyBool(b)))) :
                            p \in PagesOf, b \in BOOLEAN})

InitPages ==
    /\ pc = "fetch_start"
    /\ fetch \in {"get_today_orders", "get_positions"}
    /\ account_id \in IF fetch = "get_today_orders" THEN {None, A1} ELSE {A1}
    /\ page_size \in IF fetch = "get_today_orders" THEN 1..MaxPageSize
                     ELSE {PositionsPageSize}
    /\ pages = <<>>
    /\ page_requests = <<>>
    /\ last_id = None
    /\ all_records = <<>>
    /\ fetch_result = None
    /\ IdleFormat
    /\ IdlePositions
    /\ IdleAsset
    /\ IdleEnv
    /\ IdleMain
    /\ IdleStats

\* show_his.py 158-165 (the account id is tested, the loop variables are
\* set) and show_pos.py 109-111
BeginFetch ==
    /\ pc = "fetch_start"
    /\ IF fetch = "get_today_orders" /\ ~Truthy(account_id)
       THEN /\ fetch_result' = None
            /\ pc' = "fetch_done"
       ELSE /\ fetch_result' = fetch_result
            /\ pc' = "page_loop"
    /\ all_records' = <<>>
    /\ last_id' = None
    /\ UNCHANGED <<fetch, account_id, page_size, pages, page_requests>>
    /\ UNCHANGED <<fmtVars, posVars, out, assetVars, envVars, mainVars, statVars>>

\* the request of one iteration: show_his.py 168-172, show_pos.py 115-126
RequestPage ==
    /\ pc = "page_loop"
    /\ Len(page_requests) < MaxPages
    /\ page_requests' = Append(page_requests,
                               NextRequest(fetch, account_id, page_size, last_id))
    /\ pc' = "page_wait"
    /\ UNCHANGED <<fetch, account_id, page_size, pages, last_id, all_records,
                   fetch_result>>
    /\ UNCHANGED <<fmtVars, posVars, out, assetVars, envVars, mainVars, statVars>>

\* the response of the request is handled: show_his.py 174-197,
\* show_pos.py 128-160
ReceivePage ==
    /\ pc = "page_wait"
    /\ \E resp \in PageResponses(fetch) :
          LET st == IF fetch = "get_today_orders"
                    THEN OrdersPage(resp, all_records, last_id, page_size)
                    ELSE PositionsPage(resp, all_records, last_id)
          IN  /\ pages' = Append(pages, resp)
              /\ all_records' = st.all
              /\ last_id' = st.last
              /\ fetch_result' = st.result
              /\ pc' = IF st.done THEN "fetch_done" ELSE "page_loop"
    /\ UNCHANGED <<fetch, account_id, page_size, page_requests>>
    /\ UNCHANGED <<fmtVars, posVars, out, assetVars, envVars, mainVars, statVars>>

NextPages ==
    \/ BeginFetch
    \/ RequestPage
    \/ ReceivePage

SpecPages == InitPages /\ [][NextPages]_vars

(***************************************************************************)
(* The statistics of show_his main.                show_his.py 447-470     *)
(* The Japanese labels are written in Latin letters: shorichu, yakujo,     *)
(* kyanseru, kyohi, kyanserumachi, ichibuyakujo and shippai for the labels *)
(* of the statuses, kai and uri for those of the sides.                    *)
(***************************************************************************)
\* status_map of format_order_status, show_his.py 209-217
StatusMap ==
    (<<"W", "o", "r", "k", "i", "n", "g">> :> <<"s", "h", "o", "r", "i", "c", "h", "u">>) @@
    (<<"F", "i", "l", "l", "e", "d">> :> <<"y", "a", "k", "u", "j", "o">>) @@
    (<<"C", "a", "n", "c", "e", "l", "l", "e", "d">> :> <<"k", "y", "a", "n", "s", "e", "r", "u">>) @@
    (<<"R", "e", "j", "e", "c", "t", "e", "d">> :> <<"k", "y", "o", "h", "i">>) @@
    (<<"P", "e", "n", "d", "i", "n", "g", "C", "a", "n", "c", "e", "l">> :> <<"k", "y", "a", "n", "s", "e", "r", "u", "m", "a", "c", "h", "i">>) @@
    (<<"P", "a", "r", "t", "i", "a", "l", "F", "i", "l", "l", "e", "d">> :> <<"i", "c", "h", "i", "b", "u", "y", "a", "k", "u", "j", "o">>) @@
    (<<"F", "a", "i", "l", "e", "d">> :> <<"s", "h", "i", "p", "p", "a", "i">>)

\* side_map of format_order_side, show_his.py 230-233
Kai == <<"k", "a", "i">>
Uri == <<"u", "r", "i">>
SideMap == (<<"B", "U", "Y">> :> Kai) @@ (<<"S", "E", "L", "L">> :> Uri)

\* dict.get(code, code) of a translation table: a code that is not a key of
\* the table is returned unchanged
Translate(map, code) ==
    IF code.t = "str" /\ code.s \in DOMAIN map THEN Str(map[code.s]) ELSE code

\* show_his.py 199-218
format_order_status(status) == Translate(StatusMap, status)

\* show_his.py 220-234
format_order_side(side) == Translate(SideMap, side)

\* status_counts = {}
NoCounts == [k \in {} |-> 0]

\* counts[k] = counts.get(k, 0) + 1
Increment(counts, k) ==
    [x \in DOMAIN counts \cup {k} |->
        IF x = k THEN (IF k \in DOMAIN counts THEN counts[k] ELSE 0) + 1 ELSE counts[x]]

\* a variant that counts an order whatever its side
CountSideOf_Every(counts, side) == Increment(counts, Str(Kai))

\* if side in side_counts: side_counts[side] += 1
CountSideOf(counts, side) == IF side \in DOMAIN counts THEN Increment(counts, side) ELSE counts

\* sorted(status_counts.items()) compares the labels: None and a string
\* cannot be compared and the call raises TypeError
SortRaises(counts) == \E a, b \in DOMAIN counts : a.t # b.t

\* the orders that are explored: the status and the side are missing, None,
\* a code of the table, a code that is not in it, or a label itself
OrderStatuses == {None, Str(<<"F", "i", "l", "l", "e", "d">>), Str(<<"W", "o", "r", "k", "i", "n", "g">>), Str(<<"X", "Y", "Z">>), Str(<<"y", "a", "k", "u", "j", "o">>)}
OrderSides == {Str(<<"B", "U", "Y">>), Str(<<"S", "E", "L", "L">>), Str(<<"H", "O", "L", "D">>), Str(Kai)}
OrderPool ==
    {Dict(f) : f \in RecordsOver({"status", "side"},
                                 "status" :> OrderStatuses @@ "side" :> OrderSides)}

\* the statistics are made when the list of the orders is not empty
InitStats ==
    /\ pc = "status_loop"
    /\ his_orders \in UNION {[1..n -> OrderPool] : n \in 1..MaxOrders}
    /\ status_counts = NoCounts
    /\ side_counts = NoCounts
    /\ order_idx = 0
    /\ IdleFormat
    /\ IdlePositions
    /\ IdleAsset
    /\ IdleEnv
    /\ IdleMain
    /\ IdlePages

\* one iteration of the first loop, show_his.py 449-451
CountStatus ==
    /\ pc = "status_loop"
    /\ order_idx < Len(his_orders)
    /\ order_idx' = order_idx + 1
    /\ LET status == format_order_status(Get(his_orders[order_idx'].v, "status",
                                             Str(<<"N", "/", "A">>)))
       IN  status_counts' = Increment(status_counts, status)
    /\ UNCHANGED <<pc, his_orders, side_counts>>
    /\ UNCHANGED <<fmtVars, posVars, out, assetVars, envVars, mainVars, pageVars>>

\* the counts of the statuses are printed in the order of their labels and
\* the counts of the sides are set to zero, show_his.py 453-459
PrintStatusCounts ==
    /\ pc = "status_loop"
    /\ order_idx = Len(his_orders)
    /\ ~SortRaises(status_counts)
    /\ side_counts' = (Str(Kai) :> 0) @@ (Str(Uri) :> 0)
    /\ order_idx' = 0
    /\ pc' = "side_loop"
    /\ UNCHANGED <<his_orders, status_counts>>
    /\ UNCHANGED <<fmtVars, posVars, out, assetVars, envVars, mainVars, pageVars>>

\* sorted() raises at show_his.py 455; main has no handler and ends there
StatusSortRaises ==
    /\ pc = "status_loop"
    /\ order_idx = Len(his_orders)
    /\ SortRaises(status_counts)
    /\ pc' = "stats_raised"
    /\ UNCHANGED statVars
    /\ UNCHANGED <<fmtVars, posVars, out, assetVars, envVars, mainVars, pageVars>>

\* one iteration of the second loop, show_his.py 460-463
CountSide ==
    /\ pc = "side_loop"
    /\ order_idx < Len(his_orders)
    /\ order_idx' = order_idx + 1
    /\ LET side == format_order_side(Get(his_orders[order_idx'].v, "side", Str(<<>>)))
       IN  side_counts' = CountSideOf(side_counts, side)
    /\ UNCHANGED <<pc, his_orders, status_counts>>
    /\ UNCHANGED <<fmtVars, posVars, out, assetVars, envVars, mainVars, pageVars>>

\* the counts of the sides are printed, show_his.py 465-469
PrintSideCounts ==
    /\ pc = "side_loop"
    /\ order_idx = Len(his_orders)
    /\ pc' = "stats_done"
    /\ UNCHANGED statVars
    /\ UNCHANGED <<fmtVars, posVars, out, assetVars, envVars, mainVars, pageVars>>

NextStats ==
    \/ CountStatus
    \/ PrintStatusCounts
    \/ StatusSortRaises
    \/ CountSide
    \/ PrintSideCounts

SpecStats == InitStats /\ [][NextStats]_vars

(***************************************************************************)
(* Vocabulary of the properties of the loggers and of the main functions.  *)
(***************************************************************************)
Exited == pc = "main_exit"

\* the messages of the events of ev that satisfy Keep, in order
Messages(ev, Keep(_)) ==
    LET kept == SelectSeq(ev, Keep) IN [i \in 1..Len(kept) |-> kept[i].msg]

OnConsole(e) == e.sink = "console"
ThroughLogger(e) == e.sink = "console" /\ e.via = "logger"
FileEligible(e) == e.sink = "console" /\ ~e.marked
FileWrite(e) == e.sink = "file" /\ e.op = "write"

\* what the console has shown
Console == Messages(events, OnConsole)

\* index of the last opening of the file, 0 when it was never opened
LastOpen ==
    IF \E i \in 1..Len(events) : events[i] = FileOpen
    THEN CHOOSE i \in 1..Len(events) :
             events[i] = FileOpen /\ \A j \in (i + 1)..Len(events) : events[j] # FileOpen
    ELSE 0

\* the content of the Markdown file: what was written since it was last opened
FileContent == Messages(SubSeq(events, LastOpen + 1, Len(events)), FileWrite)

InSeq(x, sq) == \E i \in 1..Len(sq) : sq[i] = x

UsesApi == script \in {"show_asset", "show_pos", "show_his"}

\* the key or the secret is not set or is empty
CredentialsMissing ==
    app_key \in {None, Str(<<>>)} \/ app_secret \in {None, Str(<<>>)}

(***************************************************************************)
(* C15.  In every script that uses the API, when the app key or the app    *)
(* secret is missing or empty after the credentials are loaded, no API     *)
(* client is ever constructed and no API request is ever issued, and the   *)
(* run, unless an exception interrupts it, ends with the remediation       *)
(* instructions printed.                                                   *)
(***************************************************************************)
C15_NoApiWithoutCredentials ==
    (script # "none" /\ UsesApi /\ CredentialsMissing) =>
        /\ client = 0
        /\ requests = <<>>
        /\ pc # "main_api"
        /\ (Exited /\ ~raised) => InSeq("remediation", Console)

C15_Witness ==
    /\ Exited
    /\ ~raised
    /\ script = "show_his"
    /\ app_key = Str(<<"k">>)
    /\ app_secret = Str(<<>>)
    /\ InSeq("remediation", Console)
    /\ client = 0

(***************************************************************************)
(* C16.  While a MarkdownLogger that replaces sys.stdout is installed,     *)
(* every message written is delivered to the console and then to the file, *)
(* in the same order and unmodified: every write to the file made by       *)
(* MarkdownLogger.write directly follows the console write of the same     *)
(* message, the messages written to the file by write are the messages     *)
(* sent to the console through the logger, and with the loggers of         *)
(* show_asset.py and show_pos.py, whose constructors write nothing, the    *)
(* content of the file is the concatenation of those messages.             *)
(***************************************************************************)
ReplacesStdout == script \in {"show_asset", "show_pos", "show_symbol_jp"}

WrittenByLogger(e) == FileWrite(e) /\ e.via = "logger"

\* every console write made through the logger is directly followed by the
\* file write of the same message, and every such file write follows one
ConsoleFirst ==
    \A i \in 1..Len(events) :
        /\ ThroughLogger(events[i]) =>
               /\ i < Len(events)
               /\ WrittenByLogger(events[i + 1])
               /\ events[i + 1].msg = events[i].msg
        /\ WrittenByLogger(events[i]) =>
               /\ i > 1
               /\ ThroughLogger(events[i - 1])
               /\ events[i - 1].msg = events[i].msg

C16_WriteReachesBothSinks ==
    ReplacesStdout =>
        /\ ConsoleFirst
        /\ Messages(events, WrittenByLogger) = Messages(events, ThroughLogger)
        /\ script \in {"show_asset", "show_pos"} =>
               FileContent = Messages(events, ThroughLogger)

C16_Witness ==
    /\ script = "show_asset"
    /\ stdout = "logger"
    /\ Len(FileContent) >= 3
    /\ FileContent = Messages(events, ThroughLogger)
    /\ InSeq("r2", FileContent)

(***************************************************************************)
(* C17.  In show_his.py, MarkdownLogger.print routes selectively: after    *)
(* any sequence of calls of print the buffered lines are exactly the       *)
(* messages of the calls made with to_file=True, in call order, and the    *)
(* console has received exactly the messages of the calls made with        *)
(* to_console=True; a save writes exactly the buffered lines, so a message *)
(* that was only printed with to_file=False never appears in the saved     *)
(* file while it is still emitted to the console.                          *)
(***************************************************************************)
ToFile(c) == c.to_file
ToConsole(c) == c.to_console

\* the messages of the calls of cs that satisfy Keep, in call order
CallMessages(cs, Keep(_)) ==
    LET kept == SelectSeq(cs, Keep) IN [i \in 1..Len(kept) |-> kept[i].message]

PrintedByLogger(e) == e.sink = "console" /\ e.via = "print"

IsPrefix(a, b) == Len(a) <= Len(b) /\ a = SubSeq(b, 1, Len(a))

\* every call that printed m said to_file=False
ConsoleOnly(m) ==
    /\ \E i \in 1..Len(calls) : calls[i].message = m
    /\ \A i \in 1..Len(calls) : calls[i].message = m => ~calls[i].to_file

SelectiveRouting ==
    /\ lines = CallMessages(calls, ToFile)
    /\ Messages(events, PrintedByLogger) = CallMessages(calls, ToConsole)
    /\ IsPrefix(FileContent, lines)
    /\ \A m \in LoggerMessages :
          ConsoleOnly(m) =>
              /\ ~InSeq(m, FileContent)
              /\ ~InSeq(m, lines)
              /\ (\E i \in 1..Len(calls) : calls[i].message = m /\ calls[i].to_console)
                     => InSeq(m, Console)

C17_SelectiveRouting ==
    /\ []SelectiveRouting
    /\ [][pc' = "logger_saved" /\ pc = "logger_ready" =>
              FileContent' = CallMessages(calls, ToFile)]_vars

C17_Witness ==
    /\ pc = "logger_saved"
    /\ ConsoleOnly("credentials_ok")
    /\ InSeq("credentials_ok", Console)
    /\ FileContent = <<"r1">>
    /\ Len(calls) = 3

(***************************************************************************)
(* C18.  In every script that redirects its output to a Markdown file, on  *)
(* every exit path of main after the logger is installed (normal           *)
(* completion, early return, an exception raised at any point), the file   *)
(* handle is closed and sys.stdout is the original stream again: when main *)
(* has ended, the console stream is the terminal and no handle is open.    *)
(***************************************************************************)
C18_CleanupOnEveryExit ==
    (script \in {"show_asset", "show_symbol_jp", "show_pos"} /\ Exited) =>
        /\ stdout = "terminal"
        /\ ~log_open

(***************************************************************************)
(* C19.  The Markdown file mirrors the console output of the run: when a   *)
(* run that no exception interrupted has ended and has written its file,   *)
(* every line of the file was also emitted to the console, and the lines   *)
(* emitted to the console that are not marked console-only are present in  *)
(* the file, in the same order.                                            *)
(***************************************************************************)
\* a is b with some elements left out
RECURSIVE IsSubsequence(_, _)
IsSubsequence(a, b) ==
    IF a = <<>> THEN TRUE
    ELSE IF b = <<>> THEN FALSE
    ELSE IF Head(a) = Head(b) THEN IsSubsequence(Tail(a), Tail(b))
    ELSE IsSubsequence(a, Tail(b))

C19_FileMirrorsConsole ==
    (Exited /\ ~raised /\ LastOpen > 0) =>
        /\ \A i \in 1..Len(FileContent) : InSeq(FileContent[i], Console)
        /\ IsSubsequence(Messages(events, FileEligible), FileContent)

(***************************************************************************)
(* C20.  Each pagination loop terminates at the first terminal page: a     *)
(* page of get_today_orders that is empty or holds fewer records than      *)
(* page_size, a page of get_positions whose has_next flag is false or      *)
(* whose holdings are empty.  Every page received before the last one is   *)
(* not terminal, the function has returned as soon as a terminal page is   *)
(* received and issues no request after it, and when it has returned it    *)
(* has issued exactly one request for each page it received.               *)
(***************************************************************************)
\* the records of a page, no record when the key is missing
RecordsOf(resp) ==
    Get(resp.body.v, IF fetch = "get_today_orders" THEN "data" ELSE "holdings",
        List(<<>>)).v

\* the page is the last one by the rule of its loop
TerminalPage(resp) ==
    /\ resp.status = 200
    /\ IF fetch = "get_today_orders"
       THEN RecordsOf(resp) = <<>> \/ Len(RecordsOf(resp)) < page_size
       ELSE \/ RecordsOf(resp) = <<>>
            \/ "has_next" \notin DOMAIN resp.body.v
            \/ resp.body.v["has_next"] = PyBool(FALSE)

FetchDone == pc = "fetch_done"

StopsAtTerminalPage ==
    fetch # "none" =>
        /\ \A i \in 1..(Len(pages) - 1) : pages[i].status = 200 /\ ~TerminalPage(pages[i])
        /\ (pages # <<>> /\ TerminalPage(pages[Len(pages)])) => FetchDone
        /\ Len(page_requests) = Len(pages) + (IF pc = "page_wait" THEN 1 ELSE 0)
        /\ (FetchDone /\ pages # <<>>) =>
               /\ Len(page_requests) = Len(pages)
               /\ pages[Len(pages)].status # 200 \/ TerminalPage(pages[Len(pages)])

C20_LoopsStopAtTerminalPage ==
    /\ []StopsAtTerminalPage
    /\ [][FetchDone => page_requests' = page_requests]_vars

C20_Witness ==
    /\ fetch = "get_positions"
    /\ FetchDone
    /\ Len(pages) = 3
    /\ Len(page_requests) = 3
    /\ TerminalPage(pages[3])
    /\ RecordsOf(pages[3]) # <<>>

C20_WitnessOrders ==
    /\ fetch = "get_today_orders"
    /\ FetchDone
    /\ Len(pages) = 2
    /\ page_size = 2
    /\ TerminalPage(pages[2])
    /\ Len(RecordsOf(pages[2])) = 1

(***************************************************************************)
(* C21.  In display_asset_info, once the subscriptions call has succeeded  *)
(* with a non-empty account list, the balance request and the positions    *)
(* request are each issued exactly once for every account, in list order,  *)
(* whatever the outcome of an earlier balance or positions step: the       *)
(* requests issued are at every moment a prefix of that sequence and are   *)
(* the whole of it when the run has ended; a balance or positions call     *)
(* that fails (a status other than 200 or a raised exception) is reported  *)
(* and the run moves on without issuing it again.                          *)
(***************************************************************************)
AccountsListed ==
    subscriptions.status = 200 /\ subscriptions.body.t = "list" /\ subscriptions.body.v # <<>>

AccountId(i) == Get(subscriptions.body.v[i].v, "account_id", None)

\* the subscriptions request, then a balance request and a positions request
\* for every account of the list
ExpectedRequests ==
    <<Request("get_app_subscriptions", None)>>
    \o [k \in 1..(2 * Len(subscriptions.body.v)) |->
           IF k % 2 = 1 THEN Request("get_account_balance", AccountId((k + 1) \div 2))
           ELSE Request("get_account_position", AccountId(k \div 2))]

LastLine(o) == o[Len(o)]

EachRequestOnce ==
    (pc # "subscriptions" /\ subscriptions # None /\ AccountsListed) =>
        /\ IsPrefix(requests, ExpectedRequests)
        /\ AssetDone => requests = ExpectedRequests

FailureReported ==
    /\ (pc = "balance" /\ pc' = "positions_request" /\ balance_response'.status # 200) =>
           /\ requests' = Append(requests, Request("get_account_balance",
                                                   AccountId(account_no)))
           /\ \/ LastLine(out') = Line("balance_error", None, None)
              \/ /\ LastLine(out') = Line("response_text", None, None)
                 /\ out'[Len(out') - 1] =
                        Line("balance_failed", None, PyInt(balance_response'.status))
    /\ (pc = "positions_request" /\ pc' # pc /\ positions_response'.status # 200) =>
           /\ requests' = Append(requests, Request("get_account_position",
                                                   AccountId(account_no)))
           /\ pc' = "next_account"
           /\ \/ LastLine(out') = Line("positions_error", None, None)
              \/ LastLine(out') =
                     Line("positions_failed", None, PyInt(positions_response'.status))

C21_EveryAccountRequestedOnce ==
    /\ []EachRequestOnce
    /\ [][FailureReported]_vars

\* a balance step and a positions step have failed, and the run has gone
\* through both accounts
C21_Witness ==
    /\ AssetDone
    /\ AccountsListed
    /\ Len(subscriptions.body.v) = 2
    /\ requests = ExpectedRequests
    /\ Len(requests) = 5
    /\ Shown(Line("balance_error", None, None))
    /\ Shown(Line("positions_failed", None, PyInt(500)))
    /\ Shown(Line("account", None, PyInt(2)))

(***************************************************************************)
(* C27.  In display_asset_info, a subscriptions response with a status     *)
(* other than 200 or with an empty account list ends the run with an error *)
(* message and with no balance and no positions request; otherwise the     *)
(* accounts are processed in the order of the response, numbered from 1,   *)
(* and for each account the balance request precedes the positions         *)
(* request.                                                                *)
(***************************************************************************)
IsAccountLine(l) == l.k = "account"
IsAccountIdLine(l) == l.k = "account_id"
IsBalanceRequest(r) == r.op = "get_account_balance"
IsPositionsRequest(r) == r.op = "get_account_position"

\* the accounts whose processing has begun
Begun == IF pc = "account" THEN account_no - 1 ELSE account_no

SubscriptionsRejected ==
    \/ subscriptions.status \notin {200, Raised}
    \/ subscriptions.status = 200 /\ ~Truthy(subscriptions.body)

\* the positions of the requests of one kind in requests
Indexes(Kind(_)) == {i \in 1..Len(requests) : Kind(requests[i])}

C27_AccountsInOrder ==
    (pc # "subscriptions" /\ subscriptions # None) =>
        /\ SubscriptionsRejected =>
               /\ AssetDone
               /\ requests = <<Request("get_app_subscriptions", None)>>
               /\ \/ LastLine(out) = Line("no_accounts", None, None)
                  \/ /\ LastLine(out) = Line("response_text", None, None)
                     /\ out[Len(out) - 1] =
                            Line("subscriptions_failed", None, PyInt(subscriptions.status))
        /\ AccountsListed =>
               /\ SelectSeq(out, IsAccountLine) =
                      [i \in 1..Begun |-> Line("account", None, PyInt(i))]
               /\ SelectSeq(out, IsAccountIdLine) =
                      [i \in 1..Begun |-> Line("account_id", None, AccountId(i))]
               /\ SelectSeq(requests, IsBalanceRequest) =
                      [i \in 1..Cardinality(Indexes(IsBalanceRequest)) |->
                          Request("get_account_balance", AccountId(i))]
               /\ SelectSeq(requests, IsPositionsRequest) =
                      [i \in 1..Cardinality(Indexes(IsPositionsRequest)) |->
                          Request("get_account_position", AccountId(i))]
               /\ \A j \in Indexes(IsPositionsRequest) :
                      /\ j - 1 \in Indexes(IsBalanceRequest)
                      /\ requests[j - 1].account = requests[j].account
               /\ AssetDone => Begun = Len(subscriptions.body.v)

C27_Witness ==
    /\ AssetDone
    /\ AccountsListed
    /\ Len(subscriptions.body.v) = 2
    /\ SelectSeq(out, IsAccountLine) =
           <<Line("account", None, PyInt(1)), Line("account", None, PyInt(2))>>
    /\ Cardinality(Indexes(IsPositionsRequest)) = 2

C27_WitnessRejected ==
    /\ AssetDone
    /\ subscriptions = Response(200, List(<<>>))
    /\ LastLine(out) = Line("no_accounts", None, None)
    /\ Len(requests) = 1

(***************************************************************************)
(* C22.  In display_asset_info, an unexpected exception raised while one   *)
(* position is parsed or formatted (a record that is not a mapping, a      *)
(* 'ticker' value that is not a mapping) is caught at the scope of that    *)
(* item: when the positions step of an account is over, every held         *)
(* position of the account that is itself well formed has been displayed.  *)
(***************************************************************************)
PositionsStepOver == pc \in {"done", "error"}

\* the records of the normalized list that are mappings, are held, and have
\* a mapping or no value under 'ticker'
WellFormedHeld ==
    {i \in 1..Len(positions.v) :
        /\ positions.v[i].t = "dict"
        /\ Held(QuantityOf(positions.v[i].v))
        /\ TickerOf(positions.v[i].v).t = "dict"}

PositionLines == {i \in 1..Len(out) : out[i].k = "position"}

C22_CaughtAtItemScope ==
    (PositionsStepOver /\ positions.t = "list") =>
        Cardinality(PositionLines) >= Cardinality(WellFormedHeld)

(***************************************************************************)
(* Vocabulary of the profit/loss row.  After an iteration of the display  *)
(* loop the rows of the position are the lines that follow its heading,    *)
(* and the reconciled fields are those of this position.                   *)
(***************************************************************************)
LastHeading ==
    CHOOSE i \in 1..Len(out) :
        out[i].k = "position" /\ \A j \in (i + 1)..Len(out) : out[j].k # "position"

CurrentRows == SubSeq(out, LastHeading + 1, Len(out))

IsProfitLossRow(l) == l.k = "profit_loss"

ProfitLossRows == SelectSeq(CurrentRows, IsProfitLossRow)

IsNumber(x) == ToFloat(x).k = "num"

StrictlyPositive(x) == IsNumber(x) /\ ~ToFloat(x).neg /\ ToFloat(x).coef > 0

BothProvided == unrealized_pl # None /\ unrealized_pl_rate # None

AllPositive ==
    StrictlyPositive(cost_price) /\ StrictlyPositive(last_price) /\ StrictlyPositive(quantity)

\* the amounts in millionths
ApiAmount == 1000 * Milli(ToFloat(unrealized_pl))

ComputedAmount ==
    (Milli(ToFloat(last_price)) - Milli(ToFloat(cost_price))) * Milli(ToFloat(quantity))

\* the row of the amount u, with the gain marker exactly when u >= 0
Marked(u) == Line("profit_loss", IF u >= 0 THEN "gain" ELSE "loss", Str(Money(u)))

\* a value that is used as a number and is not one
Unusable(x) == Truthy(x) /\ ~IsNumber(x)

RowConversionFails ==
    \/ Unusable(cost_price) \/ Unusable(last_price)
    \/ Unusable(market_value) \/ Unusable(quantity)
    \/ BothProvided /\ (~IsNumber(unrealized_pl) \/ ~IsNumber(unrealized_pl_rate))

(***************************************************************************)
(* C29 as stated: whenever both the reconciled profit/loss and its rate    *)
(* are not absent the row shows the amount of the API; otherwise a row is  *)
(* printed only when cost price, last price and quantity are all strictly  *)
(* positive and it shows (last price - cost price) * quantity.             *)
(***************************************************************************)
C29_AsClaimed ==
    Displayed =>
        /\ BothProvided =>
               IsNumber(unrealized_pl) /\ ProfitLossRows = <<Marked(ApiAmount)>>
        /\ (~BothProvided /\ ProfitLossRows # <<>>) =>
               AllPositive /\ ProfitLossRows = <<Marked(ComputedAmount)>>

(***************************************************************************)
(* C29.  When one of the values used as a number is not a number (cost     *)
(* price, last price, market value or quantity, or, both being provided,   *)
(* the profit/loss or its rate), no profit/loss row is printed.  Otherwise *)
(* the row shows the amount of the API when both the profit/loss and its   *)
(* rate are provided, the amount (last price - cost price) * quantity when *)
(* they are not both provided and the three values are strictly positive,  *)
(* and there is no row in every other case; the marker is that of a gain   *)
(* exactly when the amount is >= 0.                                        *)
(***************************************************************************)
C29_ProfitLossRow ==
    Displayed =>
        ProfitLossRows =
            IF RowConversionFails THEN <<>>
            ELSE IF BothProvided THEN <<Marked(ApiAmount)>>
            ELSE IF AllPositive THEN <<Marked(ComputedAmount)>>
            ELSE <<>>

\* both amounts exist and differ, and the row shows that of the API
C29_Witness ==
    /\ Displayed
    /\ BothProvided /\ AllPositive /\ ~RowConversionFails
    /\ ApiAmount = 0 /\ ComputedAmount = -5000000
    /\ ProfitLossRows = <<Line("profit_loss", "gain", Str(<<"0", ".", "0", "0">>))>>

\* the profit/loss is not provided and the row shows the computed loss
C29_WitnessComputed ==
    /\ Displayed
    /\ ~BothProvided /\ AllPositive /\ ~RowConversionFails
    /\ ProfitLossRows = <<Line("profit_loss", "loss", Str(<<"-", "5", ".", "0", "0">>))>>

\* both are provided, the cost price is not a number, and there is no row
C29_WitnessFallback ==
    /\ Displayed
    /\ BothProvided /\ IsNumber(unrealized_pl) /\ IsNumber(unrealized_pl_rate)
    /\ Unusable(cost_price)
    /\ ProfitLossRows = <<>>
    /\ \E i \in 1..Len(CurrentRows) : CurrentRows[i] = Line("raw_cost_price", None, cost_price)

(***************************************************************************)
(* Vocabulary of the properties of format_currency.                        *)
(***************************************************************************)
CurrencyReturned == pc = "currency_returned"

CurrencyCode == CurrencyDefault(currency)

\* the number the argument denotes
NumberOfValue == ParseNumber(StrOfValue(value))

FiniteValue == NumberOfValue.k = "num"

NonFiniteValue == NumberOfValue.k \in {"inf", "nan"}

\* a string in scientific notation that encodes zero, such as "0E-10"
ScientificZero ==
    value.t = "str" /\ HasExponent(value.s) /\ FiniteValue /\ NumberOfValue.coef = 0

\* the integer n is the decimal d truncated toward zero
IsTruncationOfDecimal(n, d) ==
    /\ IF d.coef = 0 THEN n = 0
       ELSE IF d.e >= 0 THEN Abs(n) = d.coef * Pow10(d.e)
       ELSE IF -d.e > 9 THEN n = 0
       ELSE Abs(n) * Pow10(-d.e) <= d.coef /\ d.coef < (Abs(n) + 1) * Pow10(-d.e)
    /\ (n < 0 => d.neg)
    /\ (n > 0 => ~d.neg)

\* the string s, two decimals long, is within half a hundredth of d
IsHundredthsOf(s, d) ==
    LET r == ParseNumber(StripCommas(s))
    IN  /\ r.k = "num"
        /\ r.e = -2
        /\ (r.coef # 0 => r.neg = d.neg)
        /\ IF d.coef = 0 THEN r.coef = 0
           ELSE IF d.e >= -2 THEN r.coef = d.coef * Pow10(d.e + 2)
           ELSE IF -d.e > 9 THEN r.coef = 0
           ELSE 2 * Abs(r.coef * Pow10(-(d.e + 2)) - d.coef) <= Pow10(-(d.e + 2))

\* what the claim calls a conversion that fails: Decimal() rejects the
\* value, or the value is not finite and int() rejects it under JPY
CurrencyConversionFails ==
    \/ NumberOfValue.k = "bad"
    \/ NonFiniteValue /\ CurrencyCode = "JPY"

(***************************************************************************)
(* C23 as stated: format_currency returns the raw string form of the value *)
(* when the conversion fails; otherwise, for JPY, the value truncated to   *)
(* an integer with thousands separators and, for any other currency, the   *)
(* value with thousands separators and exactly two decimals; a string in   *)
(* scientific notation that encodes zero gives "0" or "0.00".              *)
(***************************************************************************)
C23_AsClaimed ==
    CurrencyReturned =>
        /\ CurrencyConversionFails => result = StrOfValue(value)
        /\ (~CurrencyConversionFails /\ CurrencyCode = "JPY") => IsCommaInt(result)
        /\ (~CurrencyConversionFails /\ CurrencyCode # "JPY") => IsCommaTwoDecimals(result)
        /\ ScientificZero =>
               result = IF CurrencyCode = "JPY" THEN <<"0">> ELSE <<"0", ".", "0", "0">>

(***************************************************************************)
(* C23.  For a finite value format_currency returns, for JPY, the value    *)
(* truncated toward zero to an integer with thousands separators and, for  *)
(* any other currency, the value rounded to hundredths with thousands      *)
(* separators and exactly two decimals; a string in scientific notation    *)
(* that encodes zero gives "0" or "0.00".  It returns the string form of   *)
(* the value when Decimal() rejects it and, under JPY, when the value is   *)
(* an infinity or a NaN; under any other currency an infinity or a NaN is  *)
(* rendered as "inf", "-inf" or "nan".                                     *)
(***************************************************************************)
C23_FormatCurrency ==
    CurrencyReturned =>
        /\ (FiniteValue /\ CurrencyCode = "JPY") =>
               /\ IsCommaInt(result)
               /\ IsTruncationOfDecimal(IntOfString(result), NumberOfValue)
        /\ (FiniteValue /\ CurrencyCode # "JPY") =>
               /\ IsCommaTwoDecimals(result)
               /\ IsHundredthsOf(result, NumberOfValue)
        /\ ScientificZero =>
               result = IF CurrencyCode = "JPY" THEN <<"0">> ELSE <<"0", ".", "0", "0">>
        /\ CurrencyConversionFails => result = StrOfValue(value)
        /\ (NonFiniteValue /\ CurrencyCode # "JPY") =>
               result \in {<<"i", "n", "f">>, <<"-", "i", "n", "f">>, <<"n", "a", "n">>}

C23_Witness ==
    /\ CurrencyReturned
    /\ currency = "<default>"
    /\ value = Str(<<"-", "1", "2", "3", "4", ".", "5", "6">>)
    /\ result = <<"-", "1", ",", "2", "3", "4">>

C23_WitnessTwoDecimals ==
    /\ CurrencyReturned
    /\ currency = "USD"
    /\ value = Str(<<"1", "2", "3", "4", "5", "6", "7", ".", "8">>)
    /\ result = <<"1", ",", "2", "3", "4", ",", "5", "6", "7", ".", "8", "0">>

C23_WitnessScientificZero ==
    /\ CurrencyReturned
    /\ ScientificZero
    /\ currency = "EUR"
    /\ result = <<"0", ".", "0", "0">>

C23_WitnessFallback ==
    /\ CurrencyReturned
    /\ value = None
    /\ result = <<"N", "o", "n", "e">>

(***************************************************************************)
(* Vocabulary of the results of the pagination loops.                      *)
(***************************************************************************)
\* the records of the first n pages received, those of a page whose status
\* is not 200 counting for none
RECURSIVE Fetched(_)
Fetched(n) ==
    IF n = 0 THEN <<>>
    ELSE Fetched(n - 1) \o (IF pages[n].status = 200 THEN RecordsOf(pages[n]) ELSE <<>>)

\* a page request raised an exception
PageRaised == \E i \in 1..Len(pages) : pages[i].status = Raised

\* a page request returned a status that is not 200
PageRejected == \E i \in 1..Len(pages) : pages[i].status \notin {200, Raised}

\* the qty of the holding is a string that reads as a decimal above zero
QtyAboveZero(h) ==
    /\ "qty" \in DOMAIN h.v
    /\ h.v["qty"].t = "str"
    /\ LET d == ParseNumber(h.v["qty"].s)
       IN  \/ d.k = "inf" /\ ~d.neg
           \/ d.k = "num" /\ ~d.neg /\ d.coef > 0

QtyUnparsed(h) ==
    "qty" \in DOMAIN h.v /\ h.v["qty"].t = "str" /\ ParseNumber(h.v["qty"].s).k = "bad"

(***************************************************************************)
(* C24.  get_positions returns a list that holds only holdings whose qty   *)
(* reads as a decimal strictly above zero: unless a request raised, it is  *)
(* the holdings of that kind of the pages received, in page order, those   *)
(* of the earlier pages included when the last request returned a status   *)
(* that is not 200; a holding whose qty cannot be parsed is not in it.     *)
(***************************************************************************)
C24_OnlyPositiveHoldings ==
    (fetch = "get_positions" /\ FetchDone) =>
        /\ fetch_result.t = "list"
        /\ \A i \in 1..Len(fetch_result.v) :
               QtyAboveZero(fetch_result.v[i]) /\ ~QtyUnparsed(fetch_result.v[i])
        /\ ~PageRaised =>
               fetch_result.v = SelectSeq(Fetched(Len(pages)), QtyAboveZero)

\* two pages, the first with a held and an unparsed holding, the second
\* rejected: the held holding of the first page is returned
C24_Witness ==
    /\ fetch = "get_positions"
    /\ FetchDone
    /\ Len(pages) = 2
    /\ pages[2].status = 500
    /\ Len(RecordsOf(pages[1])) = 2
    /\ QtyAboveZero(RecordsOf(pages[1])[1])
    /\ QtyUnparsed(RecordsOf(pages[1])[2])
    /\ fetch_result = List(<<RecordsOf(pages[1])[1]>>)

\* held holdings of two pages are returned in page order
C24_WitnessOrder ==
    /\ fetch = "get_positions"
    /\ FetchDone
    /\ ~PageRaised /\ ~PageRejected
    /\ Len(pages) = 2
    /\ Len(fetch_result.v) = 3
    /\ fetch_result.v = SelectSeq(RecordsOf(pages[1]) \o RecordsOf(pages[2]), QtyAboveZero)

\* the cursor the request after the page resp is to carry
CursorAfter(resp) ==
    LET orders == RecordsOf(resp)
    IN  IF "client_order_id" \in DOMAIN orders[Len(orders)].v
        THEN orders[Len(orders)].v["client_order_id"]
        ELSE None

\* every request is for the account, with the page size, and carries the
\* cursor of the page before it, None for the first
CursorsChained ==
    \A k \in 1..Len(page_requests) :
        /\ page_requests[k].op = "list_today_orders"
        /\ page_requests[k].account = account_id
        /\ page_requests[k].page_size = page_size
        /\ page_requests[k].cursor = IF k = 1 THEN None ELSE CursorAfter(pages[k - 1])

(***************************************************************************)
(* C25.  get_today_orders issues no request and returns None when no       *)
(* account id is set.  Otherwise each request after the first carries as   *)
(* cursor the client_order_id of the last order of the page before it;     *)
(* the result is None when a page request returned a status that is not    *)
(* 200 or raised, whatever the earlier pages held, and is otherwise the    *)
(* orders of all the pages received, in request order.                     *)
(***************************************************************************)
C25_OrdersConcatenated ==
    fetch = "get_today_orders" =>
        /\ CursorsChained
        /\ account_id = None => page_requests = <<>>
        /\ FetchDone =>
               fetch_result = IF account_id = None \/ PageRaised \/ PageRejected
                              THEN None
                              ELSE List(Fetched(Len(pages)))

\* two full pages and a short one: three requests, the second and the third
\* with the cursor of the page before, and the five orders returned in order
C25_Witness ==
    /\ fetch = "get_today_orders"
    /\ FetchDone
    /\ page_size = 2
    /\ Len(pages) = 3
    /\ ~PageRaised /\ ~PageRejected
    /\ page_requests[2].cursor = Str(<<"b">>)
    /\ page_requests[3].cursor = None
    /\ fetch_result =
           List(RecordsOf(pages[1]) \o RecordsOf(pages[2]) \o RecordsOf(pages[3]))
    /\ Len(fetch_result.v) = 5

\* a full page, then a rejected request: the orders of the first page are
\* discarded
C25_WitnessDiscarded ==
    /\ fetch = "get_today_orders"
    /\ FetchDone
    /\ Len(pages) = 2
    /\ pages[1].status = 200
    /\ RecordsOf(pages[1]) # <<>>
    /\ pages[2].status = 500
    /\ fetch_result = None

\* no account id: no request, None
C25_WitnessNoAccount ==
    /\ fetch = "get_today_orders"
    /\ FetchDone
    /\ account_id = None
    /\ page_requests = <<>>
    /\ fetch_result = None

(***************************************************************************)
(* Vocabulary of the saving of the report of show_his.py.                  *)
(***************************************************************************)
\* the openings of the file: one for each call of save()
Opens == {i \in 1..Len(events) : events[i] = FileOpen}

FileEvents == {i \in 1..Len(events) : events[i].sink = "file"}

\* a line printed through logger.print without to_file=False
BufferedPrint(e) == e.sink = "console" /\ e.via = "print" /\ ~e.marked

\* the lines buffered before the n-th event
BufferedBefore(n) == Messages(SubSeq(events, 1, n - 1), BufferedPrint)

\* the exit paths of main after the logger is created, each known by the
\* message that only it prints
HisExitPaths == {"remediation", "init_failed", "account_failed", "orders_failed", "done"}

HisExited == script = "show_his" /\ Exited /\ ~raised

(***************************************************************************)
(* C26.  In show_his main, on each exit path after the logger is created   *)
(* (missing credentials, API initialization failure, account-id failure,   *)
(* order-fetch failure, normal completion), save() has been called exactly *)
(* once when main ends, never more than once before, and the file holds    *)
(* exactly the lines that were buffered by logger.print before that call,  *)
(* in order; no later line is written to the file.                         *)
(***************************************************************************)
C26_SavedExactlyOnce ==
    script = "show_his" =>
        /\ Cardinality(Opens) <= 1
        /\ HisExited =>
               /\ \E m \in HisExitPaths : InSeq(m, Console)
               /\ Cardinality(Opens) = 1
               /\ FileContent = BufferedBefore(LastOpen)
               /\ \A i \in FileEvents : LastOpen <= i /\ i <= LastOpen + Len(FileContent)

\* normal completion: the line printed after save() is buffered and is not
\* in the file
C26_Witness ==
    /\ HisExited
    /\ InSeq("done", Console)
    /\ InSeq("r2", FileContent)
    /\ FileContent = BufferedBefore(LastOpen)
    /\ Len(lines) = Len(FileContent) + 1
    /\ \E i \in (LastOpen + 1)..Len(events) : BufferedPrint(events[i])

\* the order fetch failed: the file ends with the message of the failure
C26_WitnessFailure ==
    /\ HisExited
    /\ Cardinality(Opens) = 1
    /\ FileContent # <<>>
    /\ FileContent[Len(FileContent)] = "orders_failed"
    /\ lines = FileContent

(***************************************************************************)
(* Vocabulary of the storing of the lines of the file.                     *)
(***************************************************************************)
\* the key and the value parsed from the i-th line of the file
PairOf(i) == ParseLine(env_file.lines[i])

\* the i-th line defines the key k with a value that is not empty
DefinesValue(i, k) == PairOf(i).defined /\ PairOf(i).key = k /\ PairOf(i).value # <<>>

\* the file names the key k
NamedInFile(k) ==
    env_file.exists /\ \E i \in 1..Len(env_file.lines) : PairOf(i).defined /\ PairOf(i).key = k

\* the environment holds a value that is not empty for the key k
HoldsValue(env, k) == k \in DOMAIN env /\ env[k] # <<>>

\* the step that reads the line n sets its key exactly when the key and the
\* value parsed are not empty and the environment holds no value that is
\* not empty for the key; it changes nothing else
SetsWhenFree ==
    (pc = "load_env" /\ line_no' = line_no + 1) =>
        LET pr == PairOf(line_no')
        IN  IF pr.defined /\ pr.key # <<>> /\ pr.value # <<>> /\ ~HoldsValue(environ, pr.key)
            THEN /\ DOMAIN environ' = DOMAIN environ \cup {pr.key}
                 /\ environ'[pr.key] = pr.value
                 /\ \A k \in DOMAIN environ \ {pr.key} : environ'[k] = environ[k]
            ELSE environ' = environ

\* a key that was not set before the call holds, once the file is read, the
\* value of the first line that defines it with a value that is not empty
FirstDefinitionWins ==
    (pc = "env_loaded" /\ env_file.exists) =>
        \A i \in 1..Len(env_file.lines) :
            (/\ PairOf(i).key # <<>>
             /\ DefinesValue(i, PairOf(i).key)
             /\ PairOf(i).key \notin DOMAIN environ_before
             /\ \A j \in 1..(i - 1) : ~DefinesValue(j, PairOf(i).key))
            => /\ PairOf(i).key \in DOMAIN environ
               /\ environ[PairOf(i).key] = PairOf(i).value

\* a key that the file does not name is set or not, and to the same value,
\* as before the call
UnnamedKeysKept ==
    pc \in {"load_env", "env_loaded"} =>
        \A k \in DOMAIN environ \cup DOMAIN environ_before :
            ~NamedInFile(k) => k \in DOMAIN environ /\ k \in DOMAIN environ_before
                               /\ environ[k] = environ_before[k]

C28_WitnessEmptyValue ==
    /\ pc = "env_loaded"
    /\ <<"K">> \in DOMAIN environ_before
    /\ environ_before[<<"K">>] = <<>>
    /\ env_file.lines = <<(<<"K", "=", "v">>)>>
    /\ environ[<<"K">>] = <<"v">>

(***************************************************************************)
(* Vocabulary of the statistics of show_his.py.                            *)
(***************************************************************************)
RECURSIVE SumCounts(_)
SumCounts(f) ==
    IF DOMAIN f = {} THEN 0
    ELSE LET k == CHOOSE x \in DOMAIN f : TRUE
         IN  f[k] + SumCounts([x \in DOMAIN f \ {k} |-> f[x]])

\* the status and the side of the i-th order as the response gives them, a
\* missing status reading "N/A" and a missing side the empty string
RawStatus(i) ==
    IF "status" \in DOMAIN his_orders[i].v THEN his_orders[i].v["status"]
    ELSE Str(<<"N", "/", "A">>)

RawSide(i) ==
    IF "side" \in DOMAIN his_orders[i].v THEN his_orders[i].v["side"] ELSE Str(<<>>)

KnownStatus(x) == x.t = "str" /\ x.s \in DOMAIN StatusMap

\* the label under which the i-th order is counted: that of its status when
\* the status is a code of the table, the status itself otherwise
StatusLabel(i) == IF KnownStatus(RawStatus(i)) THEN Str(StatusMap[RawStatus(i).s]) ELSE RawStatus(i)

StatusesCounted == pc \in {"side_loop", "stats_done", "stats_raised"}

SidesCounted == pc = "stats_done"

BuyCode == Str(<<"B", "U", "Y">>)
SellCode == Str(<<"S", "E", "L", "L">>)

\* the number of orders whose side is one of sides
OrdersOfSide(sides) == Cardinality({i \in 1..Len(his_orders) : RawSide(i) \in sides})

\* every order is counted once under its label
StatusCountsAddUp ==
    /\ pc = "status_loop" => SumCounts(status_counts) = order_idx
    /\ StatusesCounted =>
           /\ SumCounts(status_counts) = Len(his_orders)
           /\ \A i \in 1..Len(his_orders) : StatusLabel(i) \in DOMAIN status_counts
           /\ \A l \in DOMAIN status_counts :
                  status_counts[l] =
                      Cardinality({i \in 1..Len(his_orders) : StatusLabel(i) = l})

(***************************************************************************)
(* C30 as stated: the counts of the statuses sum to the number of orders,  *)
(* an unknown or missing status being counted under its own raw label, and *)
(* the counts of the sides count only the orders whose side is BUY or      *)
(* SELL, so that their sum is at most the number of orders.                *)
(***************************************************************************)
C30_AsClaimed ==
    his_orders # <<>> =>
        /\ StatusCountsAddUp
        /\ SidesCounted =>
               /\ side_counts[Str(Kai)] = OrdersOfSide({BuyCode})
               /\ side_counts[Str(Uri)] = OrdersOfSide({SellCode})
               /\ side_counts[Str(Kai)] + side_counts[Str(Uri)] <= Len(his_orders)

(***************************************************************************)
(* C30.  The counts of the statuses sum to the number of orders, an        *)
(* unknown or missing status being counted under its own raw label.  The   *)
(* buy count is the number of orders whose side is BUY or is the buy label *)
(* itself, the sell count the number of orders whose side is SELL or is    *)
(* the sell label itself; an order of any other side is not counted, and   *)
(* the two counts sum to at most the number of orders.                     *)
(***************************************************************************)
C30_StatisticsCounts ==
    his_orders # <<>> =>
        /\ StatusCountsAddUp
        /\ SidesCounted =>
               /\ DOMAIN side_counts = {Str(Kai), Str(Uri)}
               /\ side_counts[Str(Kai)] = OrdersOfSide({BuyCode, Str(Kai)})
               /\ side_counts[Str(Uri)] = OrdersOfSide({SellCode, Str(Uri)})
               /\ side_counts[Str(Kai)] + side_counts[Str(Uri)] <= Len(his_orders)

\* a filled buy order and an order without status whose side is unknown
C30_Witness ==
    /\ SidesCounted
    /\ Len(his_orders) = 2
    /\ his_orders[1] = Dict(("status" :> Str(<<"F", "i", "l", "l", "e", "d">>)) @@ ("side" :> BuyCode))
    /\ his_orders[2] = Dict("side" :> Str(<<"H", "O", "L", "D">>))
    /\ status_counts = (Str(<<"y", "a", "k", "u", "j", "o">>) :> 1) @@ (Str(<<"N", "/", "A">>) :> 1)
    /\ side_counts = (Str(Kai) :> 1) @@ (Str(Uri) :> 0)

\* an order whose side is the buy label itself is counted as a buy order
C30_WitnessRawLabel ==
    /\ SidesCounted
    /\ Len(his_orders) = 1
    /\ RawSide(1) = Str(Kai)
    /\ side_counts[Str(Kai)] = 1
====
